---------------------------- MODULE Spec2Model ----------------------------
(***************************************************************************)
(* A model of mail2Sql: the SQLite persistence layer (sqlite_db.py), the   *)
(* Gmail normaliser (gmail_api.py) and the ingestion run (main.py).        *)
(***************************************************************************)
EXTENDS Integers, Sequences, FiniteSets, TLC

VARIABLES
    db,        \* the committed content of the SQLite database file
    call,      \* the call on SQLiteDB in progress: its arguments, the database
               \* it found and how it ended
    ext,       \* the call of extract_email_data in progress and its result
    mailbox,   \* the kind of message the Gmail API holds for each message id
    run,       \* the run of main in progress: its position and local variables
    listing    \* the query-based listing in progress: the pages asked for so far

vars == <<db, call, ext, mailbox, run, listing>>

-----------------------------------------------------------------------------
(* Bounds *)

NumMsgs == 2      \* how many distinct message ids the mailbox holds
MaxItems == 1     \* longest child collection of a record

\* message ids are opaque strings
MsgIds == {"m" \o ToString(i) : i \in 1..NumMsgs}

\* Python's None / SQL NULL
None == "None"

-----------------------------------------------------------------------------
(* Sequence helpers *)

RECURSIVE SelectRows(_, _)
\* the rows of a child table that belong to message m, in rowid order
SelectRows(rows, m) ==
    IF rows = <<>> THEN <<>>
    ELSE IF Head(rows).message_id = m
         THEN <<Head(rows)>> \o SelectRows(Tail(rows), m)
         ELSE SelectRows(Tail(rows), m)

RECURSIVE DropRows(_, _)
\* a child table without the rows of message m
DropRows(rows, m) ==
    IF rows = <<>> THEN <<>>
    ELSE IF Head(rows).message_id = m
         THEN DropRows(Tail(rows), m)
         ELSE <<Head(rows)>> \o DropRows(Tail(rows), m)

Range(s) == {s[i] : i \in 1..Len(s)}

\* every ordering of a finite set, as sequences without repetition
Orderings(S) ==
    {s \in [1..Cardinality(S) -> S] : \A i, j \in 1..Cardinality(S) : s[i] = s[j] => i = j}

-----------------------------------------------------------------------------
(* The schema: create_tables *)

ChildTables ==
    {"email_attachments", "email_xheaders", "email_labels",
     "email_routing_headers", "email_authentication"}

\* the database right after open_db() on a new file: every table empty
EmptyDb ==
    [email_address |-> {}, emails |-> {},
     email_attachments |-> <<>>, email_xheaders |-> <<>>, email_labels |-> <<>>,
     email_routing_headers |-> <<>>, email_authentication |-> <<>>]

\* result of one SQL statement: the database after it, or an sqlite3 error
Ok(d) == [ok |-> TRUE, db |-> d]
Err(d) == [ok |-> FALSE, db |-> d]

\* foreign keys not enforced: only the emails row goes
DeleteWithoutCascade(d, m) == [d EXCEPT !.emails = {e \in d.emails : e.message_id # m}]

\* ON DELETE CASCADE: removing the emails row of m removes its child rows
CascadeDelete(d, m) ==
    [d EXCEPT !.emails = {e \in d.emails : e.message_id # m},
              !.email_attachments = DropRows(d.email_attachments, m),
              !.email_xheaders = DropRows(d.email_xheaders, m),
              !.email_labels = DropRows(d.email_labels, m),
              !.email_routing_headers = DropRows(d.email_routing_headers, m),
              !.email_authentication = DropRows(d.email_authentication, m)]

\* INSERT OR REPLACE INTO email_address: the row of the address is rewritten
InsertOrReplaceAddress(d, email, name) ==
    Ok([d EXCEPT !.email_address =
            {a \in @ : a.email # email} \cup {[email |-> email, display_name |-> name]}])

\* INSERT OR IGNORE INTO email_address (email, display_name)
InsertOrIgnoreAddress(d, email, name) ==
    IF \E a \in d.email_address : a.email = email
    THEN Ok(d)
    ELSE Ok([d EXCEPT !.email_address = @ \cup {[email |-> email, display_name |-> name]}])

\* the sender foreign key not enforced
SenderKeyUnchecked(d, row) == TRUE

\* FOREIGN KEY (sender_email) REFERENCES email_address (email); NULL is not checked
SenderKeyOk(d, row) ==
    \/ row.sender_email = None
    \/ \E a \in d.email_address : a.email = row.sender_email

\* a plain INSERT into a table without primary key: the old row stays
InsertEmailKeepingOld(d, row) == Ok([d EXCEPT !.emails = @ \cup {row}])

\* INSERT OR REPLACE INTO emails: a row with the same primary key is deleted
\* first (the foreign keys' ON DELETE CASCADE acts on it), then the row is added
InsertOrReplaceEmail(d, row) ==
    IF ~SenderKeyOk(d, row) THEN Err(d)
    ELSE LET d1 == CascadeDelete(d, row.message_id)
         IN  Ok([d1 EXCEPT !.emails = @ \cup {row}])

\* DELETE FROM <child table> WHERE message_id = m
DeleteChildren(d, table, m) == Ok([d EXCEPT ![table] = DropRows(@, m)])

\* FOREIGN KEY (message_id) REFERENCES emails (message_id); NULL is not checked
ParentKeyOk(d, row) ==
    \/ row.message_id = None
    \/ \E e \in d.emails : e.message_id = row.message_id

\* INSERT INTO <child table>
InsertChild(d, table, row) ==
    IF ~ParentKeyOk(d, row) THEN Err(d)
    ELSE Ok([d EXCEPT ![table] = Append(@, row)])

\* the DELETE removes the parent row and leaves the child tables alone
DeleteEmailRowOnly(d, m) == Ok([d EXCEPT !.emails = {e \in d.emails : e.message_id # m}])

\* DELETE FROM emails WHERE message_id = m
DeleteEmailRow(d, m) == Ok(CascadeDelete(d, m))

ExecStmt(d, s) ==
    CASE s.op = "insert_address" -> InsertOrIgnoreAddress(d, s.email, s.display_name)
      [] s.op = "replace_email"  -> InsertOrReplaceEmail(d, s.row)
      [] s.op = "delete_children" -> DeleteChildren(d, s.table, s.message_id)
      [] s.op = "insert_child"   -> InsertChild(d, s.table, s.row)
      [] s.op = "delete_email"   -> DeleteEmailRow(d, s.message_id)

RECURSIVE ExecFrom(_, _, _, _)
\* run the statements from index i on; statement number failAt (0: none) is hit
\* by an I/O error.  The result is the working state where execution stopped.
ExecFrom(d, stmts, i, failAt) ==
    IF i > Len(stmts) THEN Ok(d)
    ELSE IF i = failAt THEN Err(d)
    ELSE LET r == ExecStmt(d, stmts[i])
         IN  IF r.ok THEN ExecFrom(r.db, stmts, i + 1, failAt) ELSE r

-----------------------------------------------------------------------------
(* Text.  A str of the program is a sequence of one-character strings; an   *)
(* optional value (x or None) is a sequence of length at most one.         *)

RECURSIVE Join(_)
\* the characters of a text as one string
Join(t) == IF t = <<>> THEN "" ELSE Head(t) \o Join(Tail(t))

\* an optional text as a string, None when absent
JoinOpt(o) == IF o = <<>> THEN None ELSE Join(o[1])

Slice(t, i, j) == [k \in 1..(j - i + 1) |-> t[i + k - 1]]

\* the character classes of the patterns and decoders
Chars ==
    LET digits == {"0", "1", "2", "3", "4", "5", "6", "7", "8", "9"}
        letters ==
            {"a", "b", "c", "d", "e", "f", "g", "h", "i", "j", "k", "l", "m", "n", "o", "p",
             "q", "r", "s", "t", "u", "v", "w", "x", "y", "z", "A", "B", "C", "D", "E", "F",
             "G", "H", "I", "J", "K", "L", "M", "N", "O", "P", "Q", "R", "S", "T", "U", "V",
             "W", "X", "Y", "Z"}
    IN  [Whitespace |-> {" ", "\t", "\n"},
         Digits |-> digits,
         Letters |-> letters,
         \* \w of the re module
         Word |-> letters \cup digits \cup {"_"},
         \* [a-zA-Z0-9._%+-], [a-zA-Z0-9.-] and [A-Z|a-z] of the address pattern
         Local |-> letters \cup digits \cup {".", "_", "%", "+", "-"},
         Domain |-> letters \cup digits \cup {".", "-"},
         Tld |-> letters \cup {"|"},
         \* [\w\.\-] of the authentication patterns
         AuthDomain |-> letters \cup digits \cup {"_", ".", "-"},
         \* the standard base64 alphabet
         Base64 |-> letters \cup digits \cup {"+", "/"}]

\* str.lower() on one character
LowerChar(c) ==
    CASE c = "A" -> "a" [] c = "B" -> "b" [] c = "C" -> "c" [] c = "D" -> "d"
      [] c = "E" -> "e" [] c = "F" -> "f" [] c = "G" -> "g" [] c = "H" -> "h"
      [] c = "I" -> "i" [] c = "J" -> "j" [] c = "K" -> "k" [] c = "L" -> "l"
      [] c = "M" -> "m" [] c = "N" -> "n" [] c = "O" -> "o" [] c = "P" -> "p"
      [] c = "Q" -> "q" [] c = "R" -> "r" [] c = "S" -> "s" [] c = "T" -> "t"
      [] c = "U" -> "u" [] c = "V" -> "v" [] c = "W" -> "w" [] c = "X" -> "x"
      [] c = "Y" -> "y" [] c = "Z" -> "z" [] OTHER -> c

Lower(t) == [i \in 1..Len(t) |-> LowerChar(t[i])]

\* str.startswith
StartsWith(t, prefix) ==
    Len(t) >= Len(prefix) /\ Slice(t, 1, Len(prefix)) = prefix

RECURSIVE LStrip(_)
LStrip(t) == IF t # <<>> /\ Head(t) \in Chars.Whitespace THEN LStrip(Tail(t)) ELSE t

RECURSIVE RStrip(_)
RStrip(t) ==
    IF t # <<>> /\ t[Len(t)] \in Chars.Whitespace THEN RStrip(Slice(t, 1, Len(t) - 1)) ELSE t

\* str.strip()
Strip(t) == RStrip(LStrip(t))

\* str.replace(c, "") for a single character c
RemoveChar(t, c) == SelectSeq(t, LAMBDA x : x # c)

\* the least index >= i at which character c occurs, 0 when there is none
RECURSIVE IndexFrom(_, _, _)
IndexFrom(t, c, i) ==
    IF i > Len(t) THEN 0 ELSE IF t[i] = c THEN i ELSE IndexFrom(t, c, i + 1)

\* dict access: key in d, d.get(key, default)
Has(d, k) == k \in DOMAIN d
Get(d, k, default) == IF Has(d, k) THEN d[k] ELSE default
EmptyDict == <<>>

\* the result of evaluating a Python expression: a value, or an exception
Value(v) == [exc |-> None, val |-> v]
Raise(e) == [exc |-> e, val |-> <<>>]

-----------------------------------------------------------------------------
(* GmailAPI.extract_email_data: the helpers *)

\* h["name"] for every header h iterated: KeyError when an entry has no name
HeadersNamed(headers) == \A i \in 1..Len(headers) : Has(headers[i], "name")

RECURSIVE FirstHeader(_, _, _)
\* index of the first header at or after i whose lowered name is the lowered
\* name asked for; 0 when there is none
FirstHeader(headers, name, i) ==
    IF i > Len(headers) THEN 0
    ELSE IF Lower(headers[i].name) = Lower(name) THEN i
    ELSE FirstHeader(headers, name, i + 1)

\* a lookup that takes the name as it is written
get_header_same_case(headers, name) ==
    LET matches == {i \in 1..Len(headers) : headers[i].name = name}
    IN  IF matches = {} THEN <<>>
        ELSE << headers[CHOOSE i \in matches : \A j \in matches : i <= j].value >>

\* get_header(name): the value of the first matching header, or None
get_header(headers, name) ==
    LET i == FirstHeader(headers, name, 1)
    IN  IF i = 0 THEN <<>> ELSE << headers[i].value >>

RECURSIVE BracketFrom(_, _)
\* re.search(r'<([^>]+)>', t) from index i: the first "<" followed by at least
\* one character other than ">" and then a ">"; <<start, end>> of the group
BracketFrom(t, i) ==
    LET lt == IndexFrom(t, "<", i)
        gt == IF lt = 0 THEN 0 ELSE IndexFrom(t, ">", lt + 1)
    IN  IF lt = 0 \/ gt = 0 THEN <<>>
        ELSE IF gt > lt + 1 THEN <<lt + 1, gt - 1>>
        ELSE BracketFrom(t, lt + 1)

\* the text before the first "<": sender_header.split('<')[0]
BeforeBracket(t) ==
    LET lt == IndexFrom(t, "<", 1) IN IF lt = 0 THEN t ELSE Slice(t, 1, lt - 1)

\* a sender whose name keeps its double quotes
ResolveSenderKeepingQuotes(sender_header) ==
    IF sender_header = <<>> \/ sender_header[1] = <<>>
    THEN [sender_email |-> <<>>, sender_name |-> <<>>]
    ELSE LET h == sender_header[1]
             m == BracketFrom(h, 1)
         IN  IF m # <<>>
             THEN [sender_email |-> Slice(h, m[1], m[2]),
                   sender_name |-> << Strip(BeforeBracket(h)) >>]
             ELSE [sender_email |-> Strip(h), sender_name |-> <<>>]

\* sender_email and sender_name from the From header (None: <<>>)
ResolveSender(sender_header) ==
    IF sender_header = <<>> \/ sender_header[1] = <<>>
    THEN [sender_email |-> <<>>, sender_name |-> <<>>]
    ELSE LET h == sender_header[1]
             m == BracketFrom(h, 1)
         IN  IF m # <<>>
             THEN [sender_email |-> Slice(h, m[1], m[2]),
                   sender_name |-> << RemoveChar(Strip(BeforeBracket(h)), "\"") >>]
             ELSE [sender_email |-> Strip(h), sender_name |-> <<>>]

DigitValue(c) ==
    CASE c = "0" -> 0 [] c = "1" -> 1 [] c = "2" -> 2 [] c = "3" -> 3 [] c = "4" -> 4
      [] c = "5" -> 5 [] c = "6" -> 6 [] c = "7" -> 7 [] c = "8" -> 8 [] c = "9" -> 9

RECURSIVE DecimalValue(_, _)
\* the digits of t read in base ten after the value acc; "_" between digits is skipped
DecimalValue(t, acc) ==
    IF t = <<>> THEN acc
    ELSE IF Head(t) = "_" THEN DecimalValue(Tail(t), acc)
    ELSE DecimalValue(Tail(t), 10 * acc + DigitValue(Head(t)))

\* a decimal literal of int(): digits, single underscores only between digits
IsDecimal(t) ==
    /\ t # <<>>
    /\ \A i \in 1..Len(t) : t[i] \in Chars.Digits \cup {"_"}
    /\ t[1] # "_" /\ t[Len(t)] # "_"
    /\ \A i \in 1..(Len(t) - 1) : ~(t[i] = "_" /\ t[i + 1] = "_")

\* int(x) for a str x: surrounding whitespace, an optional sign, a decimal literal
IntOfText(t) ==
    LET u == Strip(t)
        signed == u # <<>> /\ u[1] \in {"+", "-"}
        body == IF signed THEN Tail(u) ELSE u
    IN  IF ~IsDecimal(body) THEN Raise("ValueError")
        ELSE IF signed /\ u[1] = "-" THEN Value(0 - DecimalValue(body, 0))
        ELSE Value(DecimalValue(body, 0))

\* int(message.get("internalDate", 0)): the key may be missing (0), hold JSON
\* null (<<>>) or a text
InternalDateMs(message) ==
    IF ~Has(message, "internalDate") THEN Value(0)
    ELSE IF message.internalDate = <<>> THEN Raise("TypeError")
    ELSE IntOfText(message.internalDate[1])

\* bytes.translate of urlsafe_b64decode: "-" stands for "+" and "_" for "/"
UrlsafeTranslate(t) ==
    [i \in 1..Len(t) |-> IF t[i] = "-" THEN "+" ELSE IF t[i] = "_" THEN "/" ELSE t[i]]

RECURSIVE A2bBase64(_, _, _, _, _)
\* binascii.a2b_base64 without strict mode, character i on: quad_pos counts the
\* data characters of the current group of four, pads the "=" seen in a row, n
\* the data characters read.  Characters outside the alphabet are skipped.
A2bBase64(t, i, quad_pos, pads, n) ==
    IF i > Len(t)
    THEN IF quad_pos # 0 THEN Raise("binascii.Error") ELSE Value(n)
    ELSE IF t[i] = "="
         THEN IF quad_pos >= 2 /\ quad_pos + pads + 1 >= 4
              THEN Value(n)
              ELSE A2bBase64(t, i + 1, quad_pos, IF quad_pos >= 2 THEN pads + 1 ELSE pads, n)
    ELSE IF t[i] \notin Chars.Base64
         THEN A2bBase64(t, i + 1, quad_pos, pads, n)
    ELSE A2bBase64(t, i + 1, (quad_pos + 1) % 4, 0, n + 1)

RECURSIVE Base64Data(_, _)
\* the first n data characters of t
Base64Data(t, n) ==
    IF n = 0 \/ t = <<>> THEN <<>>
    ELSE IF Head(t) \in Chars.Base64 THEN <<Head(t)>> \o Base64Data(Tail(t), n - 1)
    ELSE Base64Data(Tail(t), n)

\* base64.urlsafe_b64decode(t).decode("utf-8", errors="replace"): the decoded
\* text is represented by the data characters it was decoded from, after the
\* mark "b64:"; no data character gives the empty text.  Decoding the bytes as
\* UTF-8 replaces invalid sequences and cannot fail.
UrlsafeB64DecodeText(t) ==
    LET u == UrlsafeTranslate(t)
        r == A2bBase64(u, 1, 0, 0, 0)
    IN  IF r.exc # None THEN r
        ELSE IF r.val = 0 THEN Value(<<>>)
        ELSE Value(<<"b64:">> \o Base64Data(u, r.val))

\* the index of the last character of the longest run of characters of class
\* cls that starts at i; i - 1 when t[i] is not in cls
RECURSIVE RunEnd(_, _, _)
RunEnd(t, i, cls) ==
    IF i <= Len(t) /\ t[i] \in cls THEN RunEnd(t, i + 1, cls) ELSE i - 1

\* the literal lit stands in t at index i
LiteralAt(t, i, lit) ==
    /\ i >= 1 /\ i + Len(lit) - 1 <= Len(t)
    /\ \A k \in 1..Len(lit) : t[i + k - 1] = lit[k]

\* parse_recipients: re.findall of a pattern with two alternatives, a name
\* followed by a bracketed address, or a bare address

\* a character that is no angle bracket "<", comma, quote or whitespace
IsNameChar(c) == c \notin ({"<", ",", "\"", "'"} \cup Chars.Whitespace)

\* first index >= i whose character is neither a name character nor
\* whitespace; 0 when there is none
RECURSIVE NameStop(_, _)
NameStop(t, i) ==
    IF i > Len(t) THEN 0
    ELSE IF IsNameChar(t[i]) \/ t[i] \in Chars.Whitespace THEN NameStop(t, i + 1)
    ELSE i

\* the first alternative at index p: words separated by whitespace, optional
\* whitespace, "<", one or more characters other than ">", ">"
MatchNamed(t, p) ==
    IF p > Len(t) \/ ~IsNameChar(t[p]) THEN <<>>
    ELSE LET r == NameStop(t, p + 1)
             g == IF r = 0 THEN 0 ELSE IndexFrom(t, ">", r + 1)
         IN  IF r = 0 \/ t[r] # "<" \/ g = 0 \/ g = r + 1 THEN <<>>
             ELSE << [end |-> g, group1 |-> RStrip(Slice(t, p, r - 1)),
                      group2 |-> Slice(t, r + 1, g - 1), group3 |-> <<>>] >>

IsWordAt(t, i) == i >= 1 /\ i <= Len(t) /\ t[i] \in Chars.Word

\* \b between index i - 1 and index i
Boundary(t, i) == IsWordAt(t, i - 1) # IsWordAt(t, i)

\* the longest top-level domain of at least two characters that starts at
\* index i, ends at or before index hi and ends on a word boundary: its last
\* index, 0 when there is none
RECURSIVE TldEnd(_, _, _)
TldEnd(t, i, hi) ==
    IF hi < i + 1 THEN 0
    ELSE IF Boundary(t, hi + 1) THEN hi
    ELSE TldEnd(t, i, hi - 1)

\* the domain part: the characters a + 1 .. k are [A-Za-z0-9.-]+, tried from the
\* longest (k = hi) down, then "." and the top-level domain; last index of the
\* match, 0 when there is none
RECURSIVE DomainEnd(_, _, _)
DomainEnd(t, a, k) ==
    IF k < a + 1 THEN 0
    ELSE LET e == IF k + 1 <= Len(t) /\ t[k + 1] = "."
                  THEN TldEnd(t, k + 2, RunEnd(t, k + 2, Chars.Tld))
                  ELSE 0
         IN  IF e # 0 THEN e ELSE DomainEnd(t, a, k - 1)

\* the second alternative at index p: a bare address
MatchBare(t, p) ==
    IF p > Len(t) \/ ~Boundary(t, p) THEN <<>>
    ELSE LET a == RunEnd(t, p, Chars.Local) + 1
             e == IF a > p /\ a <= Len(t) /\ t[a] = "@"
                  THEN DomainEnd(t, a, RunEnd(t, a + 1, Chars.Domain))
                  ELSE 0
         IN  IF e = 0 THEN <<>>
             ELSE << [end |-> e, group1 |-> <<>>, group2 |-> <<>>,
                      group3 |-> Slice(t, p, e)] >>

\* re.findall from index p on: at each index the first alternative is tried
\* before the second; the scan goes on after the end of a match
RECURSIVE FindAllRecipients(_, _)
FindAllRecipients(t, p) ==
    IF p > Len(t) THEN <<>>
    ELSE LET m1 == MatchNamed(t, p)
             m == IF m1 # <<>> THEN m1 ELSE MatchBare(t, p)
         IN  IF m = <<>> THEN FindAllRecipients(t, p + 1)
             ELSE m \o FindAllRecipients(t, m[1].end + 1)

\* the (name, address) pair of one match, none when neither group is set
RecipientOf(match) ==
    IF match.group2 # <<>>
    THEN << <<Join(RemoveChar(Strip(match.group1), "\"")), Join(match.group2)>> >>
    ELSE IF match.group3 # <<>> THEN << <<"", Join(match.group3)>> >>
    ELSE <<>>

RECURSIVE RecipientsOf(_)
RecipientsOf(matches) ==
    IF matches = <<>> THEN <<>>
    ELSE RecipientOf(Head(matches)) \o RecipientsOf(Tail(matches))

\* parse_recipients(header_value); header_value is None (<<>>) or a text
parse_recipients(header_value) ==
    IF header_value = <<>> \/ header_value[1] = <<>> THEN <<>>
    ELSE RecipientsOf(FindAllRecipients(header_value[1], 1))

\* parse_auth_results: three re.search calls

\* the literals of the three patterns
Lit ==
    [Spf |-> <<"s", "p", "f", "=">>,
     HeaderFrom |-> <<"h", "e", "a", "d", "e", "r", ".", "f", "r", "o", "m", "=">>,
     Dkim |-> <<"d", "k", "i", "m", "=">>,
     HeaderD |-> <<"h", "e", "a", "d", "e", "r", ".", "d", "=">>,
     Dmarc |-> <<"d", "m", "a", "r", "c", "=">>]

\* the greatest index h in lo..hi at which the literal stands followed by a
\* domain character, no newline lying between lo and h; 0 when there is none
RECURSIVE LastDomainKey(_, _, _, _)
LastDomainKey(t, lit, lo, hi) ==
    IF hi < lo THEN 0
    ELSE IF /\ LiteralAt(t, hi, lit)
            /\ hi + Len(lit) <= Len(t) /\ t[hi + Len(lit)] \in Chars.AuthDomain
            /\ \A k \in lo..(hi - 1) : t[k] # "\n"
         THEN hi
         ELSE LastDomainKey(t, lit, lo, hi - 1)

\* re.search(key=(\w+)\s.*domainKey=([\w\.\-]+)) from index p on: the leftmost
\* start that matches; <<status, domain>> or <<>>
RECURSIVE SearchStatusDomain(_, _, _, _)
SearchStatusDomain(t, key, domainKey, p) ==
    IF p > Len(t) THEN <<>>
    ELSE LET w == RunEnd(t, p + Len(key), Chars.Word)
             h == IF /\ LiteralAt(t, p, key)
                     /\ w >= p + Len(key)
                     /\ w + 1 <= Len(t) /\ t[w + 1] \in Chars.Whitespace
                  THEN LastDomainKey(t, domainKey, w + 2, Len(t))
                  ELSE 0
         IN  IF h = 0 THEN SearchStatusDomain(t, key, domainKey, p + 1)
             ELSE << Join(Slice(t, p + Len(key), w)),
                     Join(Slice(t, h + Len(domainKey),
                                RunEnd(t, h + Len(domainKey), Chars.AuthDomain))) >>

\* re.search(key=(\w+)) from index p on; <<status>> or <<>>
RECURSIVE SearchStatus(_, _, _)
SearchStatus(t, key, p) ==
    IF p > Len(t) THEN <<>>
    ELSE LET w == RunEnd(t, p + Len(key), Chars.Word)
         IN  IF LiteralAt(t, p, key) /\ w >= p + Len(key)
             THEN << Join(Slice(t, p + Len(key), w)) >>
             ELSE SearchStatus(t, key, p + 1)

\* parse_auth_results(header_value): None (<<>>) or << dict >>; the dict holds
\* only the keys whose pattern matched
parse_auth_results(header_value) ==
    IF header_value = <<>> \/ header_value[1] = <<>> THEN <<>>
    ELSE LET t == header_value[1]
             spf == SearchStatusDomain(t, Lit.Spf, Lit.HeaderFrom, 1)
             dkim == SearchStatusDomain(t, Lit.Dkim, Lit.HeaderD, 1)
             dmarc == SearchStatus(t, Lit.Dmarc, 1)
             keys == (IF spf # <<>> THEN {"spf_status", "spf_domain"} ELSE {})
                     \cup (IF dkim # <<>> THEN {"dkim_status", "dkim_domain"} ELSE {})
                     \cup (IF dmarc # <<>> THEN {"dmarc_status"} ELSE {})
             auth_results ==
                 [k \in keys |->
                    CASE k = "spf_status" -> spf[1] [] k = "spf_domain" -> spf[2]
                      [] k = "dkim_status" -> dkim[1] [] k = "dkim_domain" -> dkim[2]
                      [] k = "dmarc_status" -> dmarc[1]]
         IN  IF keys = {} THEN <<>> ELSE << auth_results >>

\* The Date header.  Its text is a sequence of lexical units (a date, a time,
\* an offset, a day or month name, a separator) instead of single characters;
\* the units below are the ones the two parsers are tried on.
Units ==
    [IsoDates |-> {"2025-04-15"},
     Times |-> {"10:30:00"},
     Offsets |-> {"+00:00", "-07:00", "-0700", "Z"},
     DayNames |-> {"Tue,"},
     Days |-> {"15"},
     MonthNames |-> {"Apr"},
     Years |-> {"2025"},
     \* the one-character units that datetime.fromisoformat takes as separator
     Separators |-> {" ", "T", "Z"}]

\* the minutes east of UTC an offset unit stands for
OffsetMinutes(tok) ==
    CASE tok = "+00:00" -> 0 [] tok = "-07:00" -> 0 - 420 [] tok = "-0700" -> 0 - 420
      [] tok = "Z" -> 0

\* the date a day, month name and year stand for
IsoDateOf(day, month, year) == "2025-04-15"

\* a datetime: its date, its time and its UTC offset in minutes (none: naive)
Timestamp(date, time, offset) == [date |-> date, time |-> time, utcoffset |-> offset]

\* str.replace(" (UTC)", "+00:00").replace(" (GMT)", "+00:00").replace("T", " ")
\* on one unit; the last replacement reaches every capital T left in the text
ReplaceUnit(tok) ==
    CASE tok = " (UTC)" -> "+00:00"
      [] tok = " (GMT)" -> "+00:00"
      [] tok = "T" -> " "
      [] tok = "Tue," -> " ue,"
      [] tok = "GMT" -> "GM "
      [] OTHER -> tok

ReplaceForIso(t) == [i \in 1..Len(t) |-> ReplaceUnit(t[i])]

\* datetime.fromisoformat (CPython 3.11): a date, optionally a separator and a
\* time, optionally an offset
FromIsoFormat(t) ==
    IF Len(t) = 1 /\ t[1] \in Units.IsoDates
    THEN Value(Timestamp(t[1], "00:00:00", <<>>))
    ELSE IF /\ Len(t) = 3 /\ t[1] \in Units.IsoDates /\ t[2] \in Units.Separators
            /\ t[3] \in Units.Times
    THEN Value(Timestamp(t[1], t[3], <<>>))
    ELSE IF /\ Len(t) = 4 /\ t[1] \in Units.IsoDates /\ t[2] \in Units.Separators
            /\ t[3] \in Units.Times /\ t[4] \in Units.Offsets
    THEN Value(Timestamp(t[1], t[3], << OffsetMinutes(t[4]) >>))
    ELSE Raise("ValueError")

RECURSIVE SkipSpaces(_, _)
\* the first index >= i that holds no whitespace unit
SkipSpaces(t, i) == IF i <= Len(t) /\ t[i] \in Chars.Whitespace THEN SkipSpaces(t, i + 1) ELSE i

\* datetime.strptime(t, '%a, %d %b %Y %H:%M:%S %z'): a blank of the format
\* stands for any run of whitespace, one or more
Strptime(t) ==
    LET i1 == 1
        i2 == SkipSpaces(t, i1 + 1)
        i3 == SkipSpaces(t, i2 + 1)
        i4 == SkipSpaces(t, i3 + 1)
        i5 == SkipSpaces(t, i4 + 1)
        i6 == SkipSpaces(t, i5 + 1)
    IN  IF /\ i6 = Len(t)
           /\ i2 > i1 + 1 /\ i3 > i2 + 1 /\ i4 > i3 + 1 /\ i5 > i4 + 1 /\ i6 > i5 + 1
           /\ t[i1] \in Units.DayNames /\ t[i2] \in Units.Days /\ t[i3] \in Units.MonthNames
           /\ t[i4] \in Units.Years /\ t[i5] \in Units.Times /\ t[i6] \in Units.Offsets
        THEN Value(Timestamp(IsoDateOf(t[i2], t[i3], t[i4]), t[i5],
                             << OffsetMinutes(t[i6]) >>))
        ELSE Raise("ValueError")

\* a sent_timestamp that comes from the ISO parse alone
SentTimestampIsoOnly(sent_timestamp_str) ==
    IF sent_timestamp_str = <<>> \/ sent_timestamp_str[1] = <<>> THEN <<>>
    ELSE LET iso == FromIsoFormat(ReplaceForIso(sent_timestamp_str[1]))
         IN  IF iso.exc = None THEN << iso.val >> ELSE <<>>

\* sent_timestamp: the ISO parse of the rewritten header, then the RFC 2822
\* parse of the header as it is, else None
SentTimestamp(sent_timestamp_str) ==
    IF sent_timestamp_str = <<>> \/ sent_timestamp_str[1] = <<>> THEN <<>>
    ELSE LET iso == FromIsoFormat(ReplaceForIso(sent_timestamp_str[1]))
             rfc == Strptime(sent_timestamp_str[1])
         IN  IF iso.exc = None THEN << iso.val >>
             ELSE IF rfc.exc = None THEN << rfc.val >>
             ELSE <<>>

-----------------------------------------------------------------------------
(* GmailAPI.extract_email_data *)

\* the header names extract_email_data asks get_header for
Hdr ==
    [Date |-> <<"D", "a", "t", "e">>,
     From |-> <<"F", "r", "o", "m">>,
     Subject |-> <<"S", "u", "b", "j", "e", "c", "t">>,
     Received |-> <<"R", "e", "c", "e", "i", "v", "e", "d">>,
     ContentTransferEncoding |->
        <<"C", "o", "n", "t", "e", "n", "t", "-", "T", "r", "a", "n", "s", "f", "e", "r",
        "-", "E", "n", "c", "o", "d", "i", "n", "g">>,
     To |-> <<"T", "o">>,
     Cc |-> <<"C", "c">>,
     Bcc |-> <<"B", "c", "c">>,
     AuthenticationResults |->
        <<"A", "u", "t", "h", "e", "n", "t", "i", "c", "a", "t", "i", "o", "n", "-", "R",
        "e", "s", "u", "l", "t", "s">>,
     ReturnPath |-> <<"R", "e", "t", "u", "r", "n", "-", "P", "a", "t", "h">>,
     Sender |-> <<"S", "e", "n", "d", "e", "r">>]

\* part.get("body", {}).get("data"): a missing key reads as the empty text here,
\* which is as false as None
BodyData(part) == Get(Get(part, "body", EmptyDict), "data", <<>>)

\* part.get("filename"): a missing key reads as "", which is as false as None
Filename(part) == Get(part, "filename", "")

RECURSIVE get_body_part(_, _, _)
\* get_body_part(parts, mime_type), part i on: the decoded data of the first
\* part of the type that has data, searching nested parts depth first; a nested
\* result that is empty is passed over.  <<>> stands for None.
get_body_part(parts, i, mime_type) ==
    IF i > Len(parts) THEN Value(<<>>)
    ELSE LET part == parts[i] IN
         IF Get(part, "mimeType", None) = mime_type /\ BodyData(part) # <<>>
         THEN LET d == UrlsafeB64DecodeText(part.body.data)
              IN  IF d.exc # None THEN d ELSE Value(<< d.val >>)
         ELSE IF Has(part, "parts")
         THEN LET result == get_body_part(part.parts, 1, mime_type)
              IN  IF result.exc # None THEN result
                  ELSE IF result.val # <<>> /\ result.val[1] # <<>> THEN result
                  ELSE get_body_part(parts, i + 1, mime_type)
         ELSE get_body_part(parts, i + 1, mime_type)

\* body_text and body_html of a payload: searched in the parts when the payload
\* has parts, else taken from the payload's own body by its MIME type
Bodies(payload) ==
    IF Has(payload, "parts")
    THEN LET body_text == get_body_part(payload.parts, 1, "text/plain")
             body_html == get_body_part(payload.parts, 1, "text/html")
         IN  IF body_text.exc # None THEN body_text
             ELSE IF body_html.exc # None THEN body_html
             ELSE Value([body_text |-> body_text.val, body_html |-> body_html.val])
    ELSE IF BodyData(payload) # <<>>
    THEN LET d == UrlsafeB64DecodeText(payload.body.data) IN
         IF Get(payload, "mimeType", None) = "text/plain"
         THEN IF d.exc # None THEN d ELSE Value([body_text |-> << d.val >>, body_html |-> <<>>])
         ELSE IF Get(payload, "mimeType", None) = "text/html"
         THEN IF d.exc # None THEN d ELSE Value([body_text |-> <<>>, body_html |-> << d.val >>])
         ELSE Value([body_text |-> <<>>, body_html |-> <<>>])
    ELSE Value([body_text |-> <<>>, body_html |-> <<>>])

\* any(x in part.get("mimeType", "") for x in ["text/plain", "text/html"])
IsTextType(part) == Get(part, "mimeType", "") \in {"text/plain", "text/html"}

RECURSIVE AttachmentsOfNested(_, _)
\* one entry per part that has a file name, at whatever depth
AttachmentsOfNested(m, parts) ==
    IF parts = <<>> THEN <<>>
    ELSE LET part == Head(parts) IN
         (IF Filename(part) # ""
          THEN << [message_id |-> m, filename |-> Filename(part),
                   mime_type |-> Get(part, "mimeType", None),
                   attachment_size |-> Get(Get(part, "body", EmptyDict), "size", None)] >>
          ELSE <<>>)
         \o (IF Has(part, "parts") THEN AttachmentsOfNested(m, part.parts) ELSE <<>>)
         \o AttachmentsOfNested(m, Tail(parts))

RECURSIVE AttachmentsOf(_, _)
\* one entry per top-level part that has a file name
AttachmentsOf(m, parts) ==
    IF parts = <<>> THEN <<>>
    ELSE LET part == Head(parts) IN
         (IF Filename(part) # ""
          THEN << [message_id |-> m, filename |-> Filename(part),
                   mime_type |-> Get(part, "mimeType", None),
                   attachment_size |-> Get(Get(part, "body", EmptyDict), "size", None)] >>
          ELSE <<>>) \o AttachmentsOf(m, Tail(parts))

RECURSIVE AdditionalPartsOf(_)
\* one entry per top-level part without file name whose type is no text type
AdditionalPartsOf(parts) ==
    IF parts = <<>> THEN <<>>
    ELSE LET part == Head(parts) IN
         (IF Filename(part) = "" /\ ~IsTextType(part)
          THEN << [part_id |-> Get(part, "partId", None),
                   mime_type |-> Get(part, "mimeType", None),
                   filename |-> Get(part, "filename", None),
                   size |-> Get(Get(part, "body", EmptyDict), "size", 0)] >>
          ELSE <<>>) \o AdditionalPartsOf(Tail(parts))

RECURSIVE XHeadersOf(_, _)
\* the headers whose lowered name starts with "x-", in header order
XHeadersOf(m, headers) ==
    IF headers = <<>> THEN <<>>
    ELSE (IF StartsWith(Lower(Head(headers).name), <<"x", "-">>)
          THEN << [message_id |-> m, header_name |-> Join(Head(headers).name),
                   header_value |-> Join(Head(headers).value)] >>
          ELSE <<>>) \o XHeadersOf(m, Tail(headers))

\* one entry per label id
LabelsOf(m, labelIds) ==
    [i \in 1..Len(labelIds) |-> [message_id |-> m, label_name |-> labelIds[i]]]

\* the message["id"] lookups of the attachment, X-header and label entries:
\* KeyError when an entry is built for a message without id
IdLookupFails(message, entries) == ~Has(message, "id") /\ entries # <<>>

\* extract_email_data(message, raw_source): the record returned, or the
\* exception that leaves the function.  The steps are taken in the order of
\* the code: bodies, attachments, X-headers, labels, Date, From, then the
\* entries of the returned dict.
extract_email_data(message, raw_source) ==
    LET payload == Get(message, "payload", EmptyDict)
        headers == Get(payload, "headers", <<>>)
        parts == Get(payload, "parts", <<>>)
        bodies == Bodies(payload)
        m == Get(message, "id", None)
        attachments == AttachmentsOf(m, parts)
        additional_parts == AdditionalPartsOf(parts)
        xheaders == XHeadersOf(m, headers)
        labels == LabelsOf(m, Get(message, "labelIds", <<>>))
        sent_timestamp == SentTimestamp(get_header(headers, Hdr.Date))
        sender_header == get_header(headers, Hdr.From)
        sender == ResolveSender(sender_header)
        internal_date_ms == InternalDateMs(message)
        raw == IF raw_source # <<>> THEN UrlsafeB64DecodeText(raw_source) ELSE Value(<<>>)
    IN  IF bodies.exc # None THEN bodies
        ELSE IF IdLookupFails(message, attachments) THEN Raise("KeyError")
        ELSE IF ~HeadersNamed(headers) THEN Raise("KeyError")
        ELSE IF IdLookupFails(message, xheaders) THEN Raise("KeyError")
        ELSE IF IdLookupFails(message, labels) THEN Raise("KeyError")
        ELSE IF internal_date_ms.exc # None THEN internal_date_ms
        ELSE IF raw.exc # None THEN raw
        ELSE Value(
            [message_id |-> m,
             thread_id |-> Get(message, "threadId", None),
             sender_email |-> Join(sender.sender_email),
             subject |-> JoinOpt(get_header(headers, Hdr.Subject)),
             body_text |-> JoinOpt(bodies.val.body_text),
             body_html |-> JoinOpt(bodies.val.body_html),
             sent_timestamp |-> sent_timestamp,
             internal_date_ms |-> internal_date_ms.val,
             date_received |-> JoinOpt(get_header(headers, Hdr.Received)),
             mime_type |-> Get(payload, "mimeType", None),
             content_transfer_encoding |->
                 JoinOpt(get_header(headers, Hdr.ContentTransferEncoding)),
             to_recipients |-> parse_recipients(get_header(headers, Hdr.To)),
             cc_recipients |-> parse_recipients(get_header(headers, Hdr.Cc)),
             bcc_recipients |-> parse_recipients(get_header(headers, Hdr.Bcc)),
             sender |-> JoinOpt(sender_header),
             sender_name |-> JoinOpt(sender.sender_name),
             snippet |-> Get(message, "snippet", None),
             raw_source |-> IF raw_source # <<>> THEN Join(raw.val) ELSE None,
             attachments |-> attachments,
             xheaders |-> xheaders,
             labels |-> labels,
             authentication_results |->
                 parse_auth_results(get_header(headers, Hdr.AuthenticationResults)),
             additional_parts |-> additional_parts,
             return_path |-> JoinOpt(get_header(headers, Hdr.ReturnPath)),
             header_sender |-> JoinOpt(get_header(headers, Hdr.Sender))])

-----------------------------------------------------------------------------
(* Messages as the Gmail API returns them (format='full'), and their raw   *)
(* sources (format='raw')                                                  *)


\* the texts of the sample messages: header values, base64 data, a number
Txt ==
    [Ann |-> <<"A", "n", "n", " ", "<", "a", "@", "x", ".", "i", "o", ">">>,
     Bob |-> <<"B", "o", "b", " ", "<", "b", "@", "y", ".", "i", "o", ">">>,
     Annie |-> <<"A", "n", "n", "i", "e", " ", "<", "a", "@", "x", ".", "i", "o", ">">>,
     BareBob |-> <<"b", "@", "y", ".", "i", "o">>,
     Hello |-> <<"h", "e", "l", "l", "o">>,
     ToBob |-> <<"t", "o", " ", "b", "o", "b">>,
     NoFrom |-> <<"n", "o", " ", "f", "r", "o", "m">>,
     Files |-> <<"f", "i", "l", "e", "s">>,
     Signed |-> <<"s", "i", "g", "n", "e", "d">>,
     Auth |->
        <<"s", "p", "f", "=", "p", "a", "s", "s", " ", "h", "e", "a", "d", "e", "r", ".",
        "f", "r", "o", "m", "=", "x", ".", "i", "o", " ", "d", "m", "a", "r", "c", "=", "f",
        "a", "i", "l">>,
     XTag |-> <<"X", "-", "T", "a", "g">>,
     V |-> <<"v">>,
     Millis |-> <<"4", "2">>,
     BodyData |-> <<"a", "G", "k", "=">>,
     RawData |-> <<"R", "n", "J", "v", "b", "Q", "=", "=">>,
     \* "Tue, 15 Apr 2025 10:30:00 -0700" in lexical units
     DateRfc |-> <<"Tue,", " ", "15", " ", "Apr", " ", "2025", " ", "10:30:00", " ", "-0700">>]

Header(name, value) == [name |-> name, value |-> value]

\* a single-part text message of id m with the given headers
Message(m, headers) ==
    [id |-> m, threadId |-> "t" \o m, internalDate |-> << Txt.Millis >>, snippet |-> "hi",
     labelIds |-> <<>>,
     payload |-> [mimeType |-> "text/plain", headers |-> headers,
                  body |-> [size |-> 2, data |-> Txt.BodyData]]]

BaseHeaders ==
    << Header(Hdr.From, Txt.Ann), Header(Hdr.Subject, Txt.Hello), Header(Hdr.Date, Txt.DateRfc) >>

\* "From: Ann <a@x.io>", no recipient, no attachment
BaseMessage(m) == Message(m, BaseHeaders)

\* a@x.io appears a second time under another display name
RecipientHeaders ==
    << Header(Hdr.To, Txt.Bob), Header(Hdr.Cc, Txt.Annie), Header(Hdr.Bcc, Txt.BareBob) >>

RecipientsMessage(m) ==
    Message(m, << Header(Hdr.From, Txt.Ann), Header(Hdr.Subject, Txt.ToBob) >> \o RecipientHeaders)

\* a message without From header
NoFromMessage(m) == Message(m, << Header(Hdr.Subject, Txt.NoFrom) >> \o RecipientHeaders)

SignedMessage(m) ==
    Message(m, << Header(Hdr.From, Txt.Ann), Header(Hdr.Subject, Txt.Signed),
                  Header(Hdr.AuthenticationResults, Txt.Auth) >>)

TextPart == [partId |-> "0", mimeType |-> "text/plain", filename |-> "",
             body |-> [size |-> 2, data |-> Txt.BodyData]]
FilePart(i) ==
    [partId |-> ToString(i), mimeType |-> "application/pdf", filename |-> "f" \o ToString(i),
     body |-> [size |-> i, attachmentId |-> "a" \o ToString(i)]]

\* a multipart message with n attached files, n X-headers and n labels
FilesMessage(m, n) ==
    [Message(m, << Header(Hdr.From, Txt.Ann), Header(Hdr.Subject, Txt.Files) >>
                \o [i \in 1..n |-> Header(Txt.XTag, Txt.V)])
        EXCEPT !.labelIds = [i \in 1..n |-> "L" \o ToString(i)],
               !.payload = [mimeType |-> "multipart/mixed", headers |-> @.headers,
                            parts |-> << TextPart >> \o [i \in 1..n |-> FilePart(i)]]]

\* the record extract_email_data makes of a message
RecordOf(message) == extract_email_data(message, Txt.RawData).val

\* routing headers are never made by extract_email_data; a caller of
\* insert_message may hand them over
RoutingHeader(m, i) ==
    [message_id |-> m, header_name |-> "Received", header_value |-> "hop", hop_order |-> i]

WithRouting(r, n) ==
    [k \in DOMAIN r \cup {"routing_headers"} |->
        IF k = "routing_headers" THEN [i \in 1..n |-> RoutingHeader(r.message_id, i)]
        ELSE r[k]]

\* the records a message id can be fetched or loaded as
RecordsOf(m) ==
    {RecordOf(BaseMessage(m)), RecordOf(RecipientsMessage(m)), RecordOf(NoFromMessage(m)),
     RecordOf(SignedMessage(m))}
    \cup {WithRouting(RecordOf(FilesMessage(m, n)), n) : n \in 1..MaxItems}

Records == UNION {RecordsOf(m) : m \in MsgIds}

-----------------------------------------------------------------------------
(* SQLiteDB.insert_message *)

\* A recipient is the tuple <<name, email>>; the list of two that json.load
\* makes of it is written <<"array", name, email>>.  tuple(i) of either:
Tuple(i) == IF Len(i) = 3 THEN Tail(i) ELSE i

\* json.dumps of a recipient list: tuples and lists both become JSON arrays
JsonDumps(pairs) == [json |-> [i \in 1..Len(pairs) |-> <<"array">> \o Tuple(pairs[i])]]

\* all_recipients: the sender pair followed by To, Cc and Bcc
AllRecipients(r) ==
    << <<r.sender_name, r.sender_email>> >> \o r.to_recipients \o r.cc_recipients
        \o r.bcc_recipients

\* set(tuple(i) for i in all_recipients if i and i[1]): the distinct
\* (name, email) pairs whose address is neither None nor empty
AddressPairs(r) ==
    {p \in {Tuple(i) : i \in Range(AllRecipients(r))} : p[2] # None /\ p[2] # ""}

\* sqlite3's adapter for datetime: isoformat(" ")
OffsetText(minutes) == CASE minutes = 0 -> "+00:00" [] minutes = 0 - 420 -> "-07:00"
AdaptDatetime(ts) ==
    IF ts = <<>> THEN None
    ELSE IF Has(ts[1], "str") THEN ts[1].str      \* a str is bound as it is
    ELSE ts[1].date \o " " \o ts[1].time
         \o (IF ts[1].utcoffset = <<>> THEN "" ELSE OffsetText(ts[1].utcoffset[1]))

\* the row of the emails table built from the record (email_model_data)
EmailRow(r) ==
    [message_id |-> Get(r, "message_id", None),
     thread_id |-> Get(r, "thread_id", None),
     sender_email |-> Get(r, "sender_email", None),
     subject |-> Get(r, "subject", None),
     body_text |-> Get(r, "body_text", None),
     body_html |-> Get(r, "body_html", None),
     sent_timestamp |-> AdaptDatetime(Get(r, "sent_timestamp", <<>>)),
     internal_date_ms |-> Get(r, "internal_date_ms", None),
     date_received |-> Get(r, "date_received", None),
     mime_type |-> Get(r, "mime_type", None),
     content_transfer_encoding |-> Get(r, "content_transfer_encoding", None),
     charset |-> Get(r, "charset", None),
     to_recipients |-> JsonDumps(Get(r, "to_recipients", <<>>)),
     cc_recipients |-> JsonDumps(Get(r, "cc_recipients", <<>>)),
     bcc_recipients |-> JsonDumps(Get(r, "bcc_recipients", <<>>)),
     return_path |-> Get(r, "return_path", None),
     header_sender |-> Get(r, "header_sender", None)]

AttachmentRow(m, att) ==
    [message_id |-> m, filename |-> att.filename, mime_type |-> att.mime_type,
     attachment_size |-> att.attachment_size]
XHeaderRow(m, xh) ==
    [message_id |-> m, header_name |-> xh.header_name, header_value |-> xh.header_value]
LabelRow(m, label) == [message_id |-> m, label_name |-> label.label_name]
RoutingRow(m, rh) ==
    [message_id |-> m, header_name |-> rh.header_name, header_value |-> rh.header_value,
     hop_order |-> rh.hop_order]
AuthRow(m, auth) ==
    [message_id |-> m,
     spf_status |-> Get(auth, "spf_status", None), spf_domain |-> Get(auth, "spf_domain", None),
     dkim_status |-> Get(auth, "dkim_status", None),
     dkim_domain |-> Get(auth, "dkim_domain", None),
     dkim_selector |-> Get(auth, "dkim_selector", None),
     dmarc_status |-> Get(auth, "dmarc_status", None),
     dmarc_policy |-> Get(auth, "dmarc_policy", None)]

\* "if auth_data:" -- None and the empty dict are both false
AuthPresent(r) ==
    /\ Len(r.authentication_results) = 1
    /\ DOMAIN r.authentication_results[1] # {}

\* the DELETE of a child collection followed by one INSERT per entry
ReplaceChildren(table, m, rows) ==
    << [op |-> "delete_children", table |-> table, message_id |-> m] >>
    \o [i \in 1..Len(rows) |-> [op |-> "insert_child", table |-> table, row |-> rows[i]]]

\* the authentication rows are deleted and written only when the record has a result
AuthStatements(r) ==
    IF AuthPresent(r)
    THEN ReplaceChildren("email_authentication", r.message_id,
                         << AuthRow(r.message_id, r.authentication_results[1]) >>)
    ELSE <<>>

\* the statements insert_message executes inside its try block, in order;
\* addrOrder is the order in which Python iterates the set of address pairs
InsertStatements(r, addrOrder) ==
    LET m == r.message_id IN
    [i \in 1..Len(addrOrder) |->
        [op |-> "insert_address", email |-> addrOrder[i][2], display_name |-> addrOrder[i][1]]]
    \o << [op |-> "replace_email", row |-> EmailRow(r)] >>
    \o ReplaceChildren("email_attachments", m,
            [i \in 1..Len(r.attachments) |-> AttachmentRow(m, r.attachments[i])])
    \o ReplaceChildren("email_xheaders", m,
            [i \in 1..Len(r.xheaders) |-> XHeaderRow(m, r.xheaders[i])])
    \o ReplaceChildren("email_labels", m,
            [i \in 1..Len(r.labels) |-> LabelRow(m, r.labels[i])])
    \o ReplaceChildren("email_routing_headers", m,
            [i \in 1..Len(Get(r, "routing_headers", <<>>)) |->
                RoutingRow(m, r.routing_headers[i])])
    \o AuthStatements(r)

\* an existence test that finds no row
ExistsNever(d, m) == FALSE

\* "SELECT 1 FROM emails WHERE message_id = ?" finds a row
Exists(d, m) == \E e \in d.emails : e.message_id = m

\* a rollback that is not carried out: the work done so far stays
RollbackKeepingWork(committed, work) == work

\* conn.rollback(): the uncommitted work is discarded
Rollback(committed, work) == committed

\* conn.commit(): the work becomes the committed state
Commit(committed, work) == work

\* insert_message without its existence check
InsertResultWithoutSkip(d, r, update_if_exists, addrOrder, failAt) ==
    LET stmts == InsertStatements(r, addrOrder)
        res == ExecFrom(d, stmts, 1, failAt)
    IN  IF res.ok /\ failAt <= Len(stmts)
        THEN [db |-> res.db, outcome |-> "committed"]
        ELSE [db |-> d, outcome |-> "failed"]

\* what a call of insert_message leaves in the database and how it ended.
\* failAt = 0: no I/O error; failAt = k: statement k raises; failAt past the
\* last statement: the commit raises.
InsertResult(d, r, update_if_exists, addrOrder, failAt) ==
    IF ~update_if_exists /\ Exists(d, r.message_id)
    THEN [db |-> d, outcome |-> "skipped"]
    ELSE LET stmts == InsertStatements(r, addrOrder)
             res == ExecFrom(d, stmts, 1, failAt)
         IN  IF res.ok /\ failAt <= Len(stmts)
             THEN [db |-> Commit(d, res.db), outcome |-> "committed"]
             ELSE [db |-> Rollback(d, res.db), outcome |-> "failed"]

\* the I/O error positions tried for a record: none, each statement, the commit
FailPoints(r) == 0..(Len(InsertStatements(r, <<>>)) + Cardinality(AddressPairs(r)) + 1)

\* insert_message runs on the arguments of the pending call
InsertMessage ==
    /\ call.pc = "called" /\ call.op = "insert_message"
    /\ LET r == call.rec[1] IN
       \E addrOrder \in Orderings(AddressPairs(r)), failAt \in FailPoints(r) :
        LET res == InsertResult(db, r, call.update_if_exists, addrOrder, failAt) IN
        /\ db' = res.db
        /\ call' = [call EXCEPT !.pc = "done", !.outcome = res.outcome]
    /\ UNCHANGED <<ext, mailbox, run, listing>>

-----------------------------------------------------------------------------
(* SQLiteDB.delete_email *)

\* a delete_email that deletes first and asks afterwards
DeleteResultBeforeConfirm(d, m, confirm, answer, fail) ==
    IF ~Exists(d, m) THEN [db |-> d, outcome |-> "not_found"]
    ELSE IF confirm /\ answer # "y" THEN [db |-> CascadeDelete(d, m), outcome |-> "cancelled"]
    ELSE IF fail THEN [db |-> d, outcome |-> "failed"]
    ELSE [db |-> CascadeDelete(d, m), outcome |-> "committed"]

\* answer: what the user types at the confirmation prompt
DeleteResult(d, m, confirm, answer, fail) ==
    IF ~Exists(d, m) THEN [db |-> d, outcome |-> "not_found"]
    ELSE IF confirm /\ answer # "y" THEN [db |-> d, outcome |-> "cancelled"]
    ELSE LET res == ExecFrom(d, << [op |-> "delete_email", message_id |-> m] >>, 1,
                             IF fail THEN 1 ELSE 0)
         IN  IF res.ok THEN [db |-> Commit(d, res.db), outcome |-> "committed"]
             ELSE [db |-> Rollback(d, res.db), outcome |-> "failed"]

\* delete_email runs on the arguments of the pending call
DeleteEmail ==
    /\ call.pc = "called" /\ call.op = "delete_email"
    /\ \E answer \in {"y", "n"}, fail \in BOOLEAN :
        LET res == DeleteResult(db, call.message_id, call.confirm, answer, fail) IN
        /\ db' = res.db
        /\ call' = [call EXCEPT !.pc = "done", !.outcome = res.outcome]
    /\ UNCHANGED <<ext, mailbox, run, listing>>

-----------------------------------------------------------------------------
(* extract_email_data applied to messages with one malformed sub-field *)

\* values of a sub-field that are not well formed; an internalDate is JSON
\* null (<<>>) or a text

Bad ==
    [Dates |->
        { <<"garbage">>, <<"2025-04-15", "garbage">>, <<"Tue,", " ", "15">>, <<"10:30:00">> },
     Recipients |->
        { <<"B", "o", "b", " ", "<">>, <<",">>, <<"<", ">">>, <<"b", "@", "y">>,
          <<"B", "o", "b", " ", "<", "y", ">">> },
     Senders |-> { <<"<", ">">>, <<"A", "n", "n", " ", "<">>, <<">", "a", "<">>, <<" ">> },
     AuthResults |->
        { <<"s", "p", "f", "=">>, <<"d", "k", "i", "m">>, <<"s", "p", "f", "=", "p", "a",
        "s", "s">>, <<"=", ";", "=">> },
     Base64 |-> { <<"a">>, <<"a", "G">>, <<"a", "G", "k">>, <<"a", "G", "k", "x", "x">> },
     InternalDates |->
        { <<>>, << <<>> >>, << <<"a", "b", "c">> >>, << <<"4", " ", "2">> >>, << <<"1", ".",
        "5">> >> }]

\* values of a sub-field that are well formed, each with what it denotes
Good ==
    [\* header values of To, the form of each and the recipients it names
     Recipients |->
        { [text |-> <<"\"", "B", "o", "b", "\"", " ", "<", "b", "@", "y", ".", "i", "o", ">">>,
          form |-> "quoted", recipients |-> <<<<"Bob", "b@y.io">>>>],
          [text |-> <<"\"", "A", "n", "n", " ", "L", "e", "e", "\"", " ", "<", "a", "@", "x",
          ".", "i", "o", ">">>, form |-> "quoted", recipients |-> <<<<"Ann Lee", "a@x.io">>>>],
          [text |-> <<"a", "@", "x", ".", "i", "o">>, form |-> "list", recipients |-> <<<<"",
          "a@x.io">>>>],
          [text |-> <<"b", "@", "y", ".", "i", "o">>, form |-> "list", recipients |-> <<<<"",
          "b@y.io">>>>],
          [text |-> <<"B", "o", "b", " ", "<", "b", "@", "y", ".", "i", "o", ">">>,
          form |-> "list", recipients |-> <<<<"Bob", "b@y.io">>>>],
          [text |-> <<"A", "n", "n", " ", "L", "e", "e", " ", "<", "a", "@", "x", ".", "i", "o",
          ">">>, form |-> "list", recipients |-> <<<<"Ann Lee", "a@x.io">>>>],
          [text |-> <<"a", "@", "x", ".", "i", "o", ",", " ", "a", "@", "x", ".", "i", "o">>,
          form |-> "list", recipients |-> <<<<"", "a@x.io">>, <<"", "a@x.io">>>>],
          [text |-> <<"a", "@", "x", ".", "i", "o", ",", " ", "b", "@", "y", ".", "i", "o">>,
          form |-> "list", recipients |-> <<<<"", "a@x.io">>, <<"", "b@y.io">>>>],
          [text |-> <<"a", "@", "x", ".", "i", "o", ",", " ", "B", "o", "b", " ", "<", "b", "@",
          "y", ".", "i", "o", ">">>, form |-> "list", recipients |-> <<<<"", "a@x.io">>,
          <<"Bob", "b@y.io">>>>],
          [text |-> <<"a", "@", "x", ".", "i", "o", ",", " ", "A", "n", "n", " ", "L", "e", "e",
          " ", "<", "a", "@", "x", ".", "i", "o", ">">>, form |-> "list", recipients |-> <<<<"",
          "a@x.io">>, <<"Ann Lee", "a@x.io">>>>],
          [text |-> <<"b", "@", "y", ".", "i", "o", ",", " ", "a", "@", "x", ".", "i", "o">>,
          form |-> "list", recipients |-> <<<<"", "b@y.io">>, <<"", "a@x.io">>>>],
          [text |-> <<"b", "@", "y", ".", "i", "o", ",", " ", "b", "@", "y", ".", "i", "o">>,
          form |-> "list", recipients |-> <<<<"", "b@y.io">>, <<"", "b@y.io">>>>],
          [text |-> <<"b", "@", "y", ".", "i", "o", ",", " ", "B", "o", "b", " ", "<", "b", "@",
          "y", ".", "i", "o", ">">>, form |-> "list", recipients |-> <<<<"", "b@y.io">>,
          <<"Bob", "b@y.io">>>>],
          [text |-> <<"b", "@", "y", ".", "i", "o", ",", " ", "A", "n", "n", " ", "L", "e", "e",
          " ", "<", "a", "@", "x", ".", "i", "o", ">">>, form |-> "list", recipients |-> <<<<"",
          "b@y.io">>, <<"Ann Lee", "a@x.io">>>>],
          [text |-> <<"B", "o", "b", " ", "<", "b", "@", "y", ".", "i", "o", ">", ",", " ", "a",
          "@", "x", ".", "i", "o">>, form |-> "list", recipients |-> <<<<"Bob", "b@y.io">>,
          <<"", "a@x.io">>>>],
          [text |-> <<"B", "o", "b", " ", "<", "b", "@", "y", ".", "i", "o", ">", ",", " ", "b",
          "@", "y", ".", "i", "o">>, form |-> "list", recipients |-> <<<<"Bob", "b@y.io">>,
          <<"", "b@y.io">>>>],
          [text |-> <<"B", "o", "b", " ", "<", "b", "@", "y", ".", "i", "o", ">", ",", " ", "B",
          "o", "b", " ", "<", "b", "@", "y", ".", "i", "o", ">">>, form |-> "list",
          recipients |-> <<<<"Bob", "b@y.io">>, <<"Bob", "b@y.io">>>>],
          [text |-> <<"B", "o", "b", " ", "<", "b", "@", "y", ".", "i", "o", ">", ",", " ", "A",
          "n", "n", " ", "L", "e", "e", " ", "<", "a", "@", "x", ".", "i", "o", ">">>,
          form |-> "list", recipients |-> <<<<"Bob", "b@y.io">>, <<"Ann Lee", "a@x.io">>>>],
          [text |-> <<"A", "n", "n", " ", "L", "e", "e", " ", "<", "a", "@", "x", ".", "i", "o",
          ">", ",", " ", "a", "@", "x", ".", "i", "o">>, form |-> "list",
          recipients |-> <<<<"Ann Lee", "a@x.io">>, <<"", "a@x.io">>>>],
          [text |-> <<"A", "n", "n", " ", "L", "e", "e", " ", "<", "a", "@", "x", ".", "i", "o",
          ">", ",", " ", "b", "@", "y", ".", "i", "o">>, form |-> "list",
          recipients |-> <<<<"Ann Lee", "a@x.io">>, <<"", "b@y.io">>>>],
          [text |-> <<"A", "n", "n", " ", "L", "e", "e", " ", "<", "a", "@", "x", ".", "i", "o",
          ">", ",", " ", "B", "o", "b", " ", "<", "b", "@", "y", ".", "i", "o", ">">>,
          form |-> "list", recipients |-> <<<<"Ann Lee", "a@x.io">>, <<"Bob", "b@y.io">>>>],
          [text |-> <<"A", "n", "n", " ", "L", "e", "e", " ", "<", "a", "@", "x", ".", "i", "o",
          ">", ",", " ", "A", "n", "n", " ", "L", "e", "e", " ", "<", "a", "@", "x", ".", "i",
          "o", ">">>, form |-> "list", recipients |-> <<<<"Ann Lee", "a@x.io">>, <<"Ann Lee",
          "a@x.io">>>>],
          [text |-> <<>>, form |-> "empty", recipients |-> <<>>] },
     \* part lists of a multipart payload
     Parts |->
        { <<[partId |-> "p1", mimeType |-> "text/plain", filename |-> "", body |-> [size |-> 2,
          data |-> <<"a", "G", "k", "=">>]], [partId |-> "b",
          mimeType |-> "multipart/alternative", filename |-> "", body |-> [size |-> 0],
          parts |-> <<[partId |-> "p2", mimeType |-> "text/plain", filename |-> "",
          body |-> [size |-> 2, data |-> <<"a", "G", "8", "=">>]], [partId |-> "h1",
          mimeType |-> "text/html", filename |-> "", body |-> [size |-> 2, data |-> <<"a", "H",
          "Q", "=">>]]>>]>>,
          <<[partId |-> "b", mimeType |-> "multipart/alternative", filename |-> "",
          body |-> [size |-> 0], parts |-> <<[partId |-> "h1", mimeType |-> "text/html",
          filename |-> "", body |-> [size |-> 2, data |-> <<"a", "H", "Q", "=">>]],
          [partId |-> "p1", mimeType |-> "text/plain", filename |-> "", body |-> [size |-> 2,
          data |-> <<"a", "G", "k", "=">>]]>>], [partId |-> "p2", mimeType |-> "text/plain",
          filename |-> "", body |-> [size |-> 2, data |-> <<"a", "G", "8", "=">>]],
          [partId |-> "h2", mimeType |-> "text/html", filename |-> "", body |-> [size |-> 2,
          data |-> <<"a", "H", "U", "=">>]]>>,
          <<[partId |-> "e", mimeType |-> "text/plain", filename |-> "", body |-> [size |-> 0]],
          [partId |-> "p2", mimeType |-> "text/plain", filename |-> "", body |-> [size |-> 2,
          data |-> <<"a", "G", "8", "=">>]]>>,
          <<[partId |-> "b", mimeType |-> "multipart/related", filename |-> "",
          body |-> [size |-> 0], parts |-> <<[partId |-> "f1", mimeType |-> "application/pdf",
          filename |-> "f1.pdf", body |-> [size |-> 1, attachmentId |-> "a1"]]>>],
          [partId |-> "i", mimeType |-> "image/png", filename |-> "", body |-> [size |-> 3,
          attachmentId |-> "a3"]], [partId |-> "f2", mimeType |-> "application/pdf",
          filename |-> "f2.pdf", body |-> [size |-> 5, attachmentId |-> "a2"]]>>,
          <<[partId |-> "i", mimeType |-> "image/png", filename |-> "", body |-> [size |-> 3,
          attachmentId |-> "a3"]]>>,
          <<[partId |-> "b", mimeType |-> "multipart/alternative", filename |-> "",
          body |-> [size |-> 0], parts |-> <<[partId |-> "c",
          mimeType |-> "multipart/alternative", filename |-> "", body |-> [size |-> 0],
          parts |-> <<[partId |-> "h1", mimeType |-> "text/html", filename |-> "",
          body |-> [size |-> 2, data |-> <<"a", "H", "Q", "=">>]]>>]>>], [partId |-> "h2",
          mimeType |-> "text/html", filename |-> "", body |-> [size |-> 2, data |-> <<"a", "H",
          "U", "=">>]]>>,
          <<[partId |-> "ft", mimeType |-> "text/plain", filename |-> "note.txt",
          body |-> [size |-> 2, data |-> <<"a", "G", "E", "=">>]], [partId |-> "p1",
          mimeType |-> "text/plain", filename |-> "", body |-> [size |-> 2, data |-> <<"a", "G",
          "k", "=">>]], [partId |-> "f1", mimeType |-> "application/pdf", filename |-> "f1.pdf",
          body |-> [size |-> 1, attachmentId |-> "a1"]]>>,
          <<[partId |-> "b", mimeType |-> "multipart/alternative", filename |-> "",
          body |-> [size |-> 0], parts |-> <<[partId |-> "z", mimeType |-> "text/plain",
          filename |-> "", body |-> [size |-> 0, data |-> <<"=", "=", "=", "=">>]]>>],
          [partId |-> "p2", mimeType |-> "text/plain", filename |-> "", body |-> [size |-> 2,
          data |-> <<"a", "G", "8", "=">>]]>>,
          <<[partId |-> "z", mimeType |-> "text/plain", filename |-> "", body |-> [size |-> 0,
          data |-> <<"=", "=", "=", "=">>]], [partId |-> "p2", mimeType |-> "text/plain",
          filename |-> "", body |-> [size |-> 2, data |-> <<"a", "G", "8", "=">>]]>>,
          << >> },
     \* Authentication-Results values, the form of each and what it holds
     AuthResults |->
        { [text |-> <<"s", "p", "f", "=", "p", "a", "s", "s", " ", "s", "m", "t", "p", ".", "m",
          "a", "i", "l", "f", "r", "o", "m", "=", "a", "@", "x", ".", "i", "o", " ", "h", "e",
          "a", "d", "e", "r", ".", "f", "r", "o", "m", "=", "x", ".", "i", "o", ";", " ", "d",
          "k", "i", "m", "=", "f", "a", "i", "l", " ", "h", "e", "a", "d", "e", "r", ".", "d",
          "=", "x", ".", "i", "o", ";", " ", "d", "m", "a", "r", "c", "=", "p", "a", "s", "s">>,
          form |-> "spaced", results |-> << [spf_status |-> "pass", spf_domain |-> "x.io",
          dkim_status |-> "fail", dkim_domain |-> "x.io", dmarc_status |-> "pass"] >>],
          [text |-> <<"s", "p", "f", "=", "p", "a", "s", "s", " ", "x", "-", "v", "=", "1", " ",
          "h", "e", "a", "d", "e", "r", ".", "f", "r", "o", "m", "=", "x", ".", "i", "o", ";",
          " ", "x", "-", "w", "=", "2", " ", "d", "k", "i", "m", "=", "f", "a", "i", "l", " ",
          "x", "-", "v", "=", "1", " ", "h", "e", "a", "d", "e", "r", ".", "d", "=", "x", ".",
          "i", "o", ";", " ", "d", "m", "a", "r", "c", "=", "p", "a", "s", "s", " ", "x", "-",
          "v", "=", "1">>, form |-> "spaced", results |-> << [spf_status |-> "pass",
          spf_domain |-> "x.io", dkim_status |-> "fail", dkim_domain |-> "x.io",
          dmarc_status |-> "pass"] >>],
          [text |-> <<"s", "p", "f", "=", "p", "a", "s", "s", " ", "h", "e", "a", "d", "e", "r",
          ".", "f", "r", "o", "m", "=", "x", ".", "i", "o">>, form |-> "spaced",
          results |-> << [spf_status |-> "pass", spf_domain |-> "x.io"] >>],
          [text |-> <<"d", "k", "i", "m", "=", "f", "a", "i", "l", " ", "h", "e", "a", "d", "e",
          "r", ".", "d", "=", "y", ".", "i", "o">>, form |-> "spaced",
          results |-> << [dkim_status |-> "fail", dkim_domain |-> "y.io"] >>],
          [text |-> <<"y", ".", "i", "o", ";", " ", "d", "m", "a", "r", "c", "=", "n", "o", "n",
          "e">>, form |-> "spaced", results |-> << [dmarc_status |-> "none"] >>],
          [text |-> <<"s", "p", "f", "=", "p", "a", "s", "s", " ", "h", "e", "a", "d", "e", "r",
          ".", "f", "r", "o", "m", "=", "x", ".", "i", "o", ";", " ", "d", "m", "a", "r", "c",
          "=", "f", "a", "i", "l">>, form |-> "spaced", results |-> << [spf_status |-> "pass",
          spf_domain |-> "x.io", dmarc_status |-> "fail"] >>],
          [text |-> <<"s", "p", "f", "=", "p", "a", "s", "s", " ", "h", "e", "a", "d", "e", "r",
          ".", "d", "=", "x", ".", "i", "o">>, form |-> "spaced", results |-> <<>>],
          [text |-> <<"d", "k", "i", "m", "=", "p", "a", "s", "s", " ", "h", "e", "a", "d", "e",
          "r", ".", "f", "r", "o", "m", "=", "x", ".", "i", "o">>, form |-> "spaced",
          results |-> <<>>],
          [text |-> <<"h", "e", "a", "d", "e", "r", ".", "f", "r", "o", "m", "=", "x", ".", "i",
          "o", " ", "s", "p", "f", "=", "p", "a", "s", "s", " ", "s", "m", "t", "p", ".", "m",
          "a", "i", "l", "f", "r", "o", "m", "=", "a", "@", "x", ".", "i", "o">>,
          form |-> "spaced", results |-> <<>>],
          [text |-> <<"y", ".", "i", "o", ";", " ", "n", "o", "n", "e">>, form |-> "spaced",
          results |-> <<>>],
          [text |-> <<"s", "p", "f", "=", "n", "o", "n", "e", ";", " ", "d", "m", "a", "r", "c",
          "=", "p", "a", "s", "s", " ", "h", "e", "a", "d", "e", "r", ".", "f", "r", "o", "m",
          "=", "x", ".", "i", "o">>, form |-> "tight", results |-> << [spf_status |-> "none",
          spf_domain |-> "x.io", dmarc_status |-> "pass"] >>],
          [text |-> <<"s", "p", "f", "=", "p", "a", "s", "s", " ", "s", "m", "t", "p", ".", "m",
          "a", "i", "l", "f", "r", "o", "m", "=", "a", "@", "x", ".", "i", "o", ";", "\n", " ",
          "d", "m", "a", "r", "c", "=", "p", "a", "s", "s", " ", "h", "e", "a", "d", "e", "r",
          ".", "f", "r", "o", "m", "=", "x", ".", "i", "o">>, form |-> "folded",
          results |-> << [spf_status |-> "pass", spf_domain |-> "x.io",
          dmarc_status |-> "pass"] >>] },
     \* Date values in lexical units, the form of each and the instant it names
     Dates |->
        { [text |-> <<"2025-04-15", "T", "10:30:00", "-07:00">>, form |-> "iso",
          sent_timestamp |-> << [date |-> "2025-04-15", time |-> "10:30:00",
          utcoffset |-> <<0 - 420>>] >>],
          [text |-> <<"2025-04-15", " ", "10:30:00", "+00:00">>, form |-> "iso",
          sent_timestamp |-> << [date |-> "2025-04-15", time |-> "10:30:00",
          utcoffset |-> <<0>>] >>],
          [text |-> <<"2025-04-15", "T", "10:30:00", " (UTC)">>, form |-> "iso",
          sent_timestamp |-> << [date |-> "2025-04-15", time |-> "10:30:00",
          utcoffset |-> <<0>>] >>],
          [text |-> <<"2025-04-15", " ", "10:30:00", " (GMT)">>, form |-> "iso",
          sent_timestamp |-> << [date |-> "2025-04-15", time |-> "10:30:00",
          utcoffset |-> <<0>>] >>],
          [text |-> <<"2025-04-15", "T", "10:30:00">>, form |-> "iso",
          sent_timestamp |-> << [date |-> "2025-04-15", time |-> "10:30:00",
          utcoffset |-> <<>>] >>],
          [text |-> <<"2025-04-15">>, form |-> "iso",
          sent_timestamp |-> << [date |-> "2025-04-15", time |-> "00:00:00",
          utcoffset |-> <<>>] >>],
          [text |-> <<"Tue,", " ", "15", " ", "Apr", " ", "2025", " ", "10:30:00", " ",
          "-0700">>, form |-> "rfc", sent_timestamp |-> << [date |-> "2025-04-15",
          time |-> "10:30:00", utcoffset |-> <<0 - 420>>] >>],
          [text |-> <<"Tue,", " ", " ", "15", " ", "Apr", " ", "2025", " ", "10:30:00", " ",
          "-0700">>, form |-> "rfc", sent_timestamp |-> << [date |-> "2025-04-15",
          time |-> "10:30:00", utcoffset |-> <<0 - 420>>] >>],
          [text |-> <<"15", " ", "Apr", " ", "2025", " ", "10:30:00", " ", "-0700">>,
          form |-> "none", sent_timestamp |-> <<>>],
          [text |-> <<"Tue,", " ", "15", " ", "Apr", " ", "2025", " ", "10:30:00", " ", "-0700",
          " (PDT)">>, form |-> "none", sent_timestamp |-> <<>>],
          [text |-> <<"Tue,", " ", "15", " ", "Apr", " ", "2025", " ", "10:30:00", " ", "GMT">>,
          form |-> "none", sent_timestamp |-> <<>>],
          [text |-> <<>>, form |-> "none", sent_timestamp |-> <<>>] },
     \* From values, the form of each, the address and the name it gives
     Senders |->
        { [text |-> <<"A", "n", "n", " ", "L", "e", "e", " ", "<", "a", "@", "x", ".", "i", "o",
          ">">>, form |-> "bracketed", sender_email |-> "a@x.io", sender_name |-> "Ann Lee"],
          [text |-> <<"\"", "A", "n", "n", " ", "L", "e", "e", "\"", " ", "<", "a", "@", "x",
          ".", "i", "o", ">">>, form |-> "bracketed", sender_email |-> "a@x.io",
          sender_name |-> "Ann Lee"],
          [text |-> <<" ", "\"", "L", "e", "e", ",", " ", "A", "n", "n", "\"", " ", " ", "<",
          "a", "@", "x", ".", "i", "o", ">", " ">>, form |-> "bracketed",
          sender_email |-> "a@x.io", sender_name |-> "Lee, Ann"],
          [text |-> <<"B", "o", "b", "<", "b", "@", "y", ".", "i", "o", ">">>,
          form |-> "bracketed", sender_email |-> "b@y.io", sender_name |-> "Bob"],
          [text |-> <<"<", "b", "@", "y", ".", "i", "o", ">">>, form |-> "bracketed",
          sender_email |-> "b@y.io", sender_name |-> ""],
          [text |-> <<"\"", "\"", " ", "<", "b", "@", "y", ".", "i", "o", ">">>,
          form |-> "bracketed", sender_email |-> "b@y.io", sender_name |-> ""],
          [text |-> <<"a", "@", "x", ".", "i", "o">>, form |-> "bare",
          sender_email |-> "a@x.io", sender_name |-> "None"],
          [text |-> <<" ", "b", "@", "y", ".", "i", "o", "\t">>, form |-> "bare",
          sender_email |-> "b@y.io", sender_name |-> "None"],
          [text |-> <<"A", "n", "n", " ", "L", "e", "e">>, form |-> "bare",
          sender_email |-> "Ann Lee", sender_name |-> "None"] },
     \* header lists, the subject and the date_received of each
     Headers |->
        { [headers |-> <<[name |-> <<"F", "r", "o", "m">>, value |-> <<"A", "n", "n", " ", "<",
          "a", "@", "x", ".", "i", "o", ">">>], [name |-> <<"S", "u", "b", "j", "e", "c", "t">>,
          value |-> <<"h", "e", "l", "l", "o">>], [name |-> <<"R", "e", "c", "e", "i", "v", "e",
          "d">>, value |-> <<"r", "1">>], [name |-> <<"R", "e", "c", "e", "i", "v", "e", "d">>,
          value |-> <<"r", "2">>], [name |-> <<"D", "a", "t", "e">>, value |-> Txt.DateRfc]>>,
          subject |-> "hello", date_received |-> "r1"],
          [headers |-> <<[name |-> <<"F", "r", "o", "m">>, value |-> <<"A", "n", "n", " ", "<",
          "a", "@", "x", ".", "i", "o", ">">>], [name |-> <<"R", "e", "c", "e", "i", "v", "e",
          "d">>, value |-> <<"r", "2">>], [name |-> <<"S", "u", "b", "j", "e", "c", "t">>,
          value |-> <<"h", "e", "l", "l", "o">>], [name |-> <<"R", "e", "c", "e", "i", "v", "e",
          "d">>, value |-> <<"r", "1">>], [name |-> <<"R", "e", "c", "e", "i", "v", "e", "d">>,
          value |-> <<"r", "2">>], [name |-> <<"D", "a", "t", "e">>, value |-> Txt.DateRfc]>>,
          subject |-> "hello", date_received |-> "r2"],
          [headers |-> <<[name |-> <<"F", "r", "o", "m">>, value |-> <<"A", "n", "n", " ", "<",
          "a", "@", "x", ".", "i", "o", ">">>], [name |-> <<"S", "U", "B", "J", "E", "C", "T">>,
          value |-> <<"h", "i">>], [name |-> <<"s", "u", "b", "j", "e", "c", "t">>,
          value |-> <<"h", "e", "l", "l", "o">>], [name |-> <<"r", "e", "c", "e", "i", "v", "e",
          "d">>, value |-> <<"r", "2">>], [name |-> <<"R", "E", "C", "E", "I", "V", "E", "D">>,
          value |-> <<"r", "1">>], [name |-> <<"D", "a", "t", "e">>, value |-> Txt.DateRfc]>>,
          subject |-> "hi", date_received |-> "r2"],
          [headers |-> <<[name |-> <<"F", "r", "o", "m">>, value |-> <<"A", "n", "n", " ", "<",
          "a", "@", "x", ".", "i", "o", ">">>], [name |-> <<"R", "e", "c", "e", "i", "v", "e",
          "d", "-", "S", "P", "F">>, value |-> <<"p", "a", "s", "s">>], [name |-> <<"R", "e",
          "c", "e", "i", "v", "e", "d">>, value |-> <<"r", "1">>], [name |-> <<"S", "u", "b",
          "j", "e", "c", "t">>, value |-> <<>>], [name |-> <<"S", "u", "b", "j", "e", "c",
          "t">>, value |-> <<"h", "i">>], [name |-> <<"D", "a", "t", "e">>,
          value |-> Txt.DateRfc]>>, subject |-> "", date_received |-> "r1"],
          [headers |-> <<[name |-> <<"F", "r", "o", "m">>, value |-> <<"A", "n", "n", " ", "<",
          "a", "@", "x", ".", "i", "o", ">">>], [name |-> <<"R", "e", "c", "e", "i", "v", "e",
          "d", "-", "S", "P", "F">>, value |-> <<"p", "a", "s", "s">>], [name |-> <<"D", "a",
          "t", "e">>, value |-> Txt.DateRfc]>>, subject |-> "None", date_received |-> "None"],
          [headers |-> <<[name |-> <<"F", "r", "o", "m">>, value |-> <<"A", "n", "n", " ", "<",
          "a", "@", "x", ".", "i", "o", ">">>], [name |-> <<"D", "a", "t", "e">>,
          value |-> Txt.DateRfc]>>, subject |-> "None", date_received |-> "None"] },
     \* internalDate values, epoch milliseconds in decimal digits, and the number of each
     InternalDates |->
        { [text |-> <<"1", "7", "4", "4">>, millis |-> 1744],
          [text |-> <<"7">>, millis |-> 7],
          [text |-> <<"0">>, millis |-> 0],
          [text |-> <<"-", "1">>, millis |-> 0 - 1] }]

\* the headers with the value of the header called name replaced, or the
\* header added when there is none
WithHeader(headers, name, value) ==
    IF FirstHeader(headers, name, 1) = 0 THEN Append(headers, Header(name, value))
    ELSE [i \in 1..Len(headers) |->
            IF i = FirstHeader(headers, name, 1) THEN Header(name, value) ELSE headers[i]]

WithPayloadHeaders(message, headers) == [message EXCEPT !.payload.headers = headers]

\* an entry of the header list that has a value and no name
UnnamedHeader == [value |-> Txt.V]

\* the messages derived from the well-formed message of id m by making one
\* sub-field malformed, each with the name of that sub-field
MalformedInputs(m) ==
    LET base == BaseMessage(m)
        input(field, message, raw) == [field |-> field, message |-> message, raw_source |-> raw]
    IN  {input("Date", WithPayloadHeaders(base, WithHeader(BaseHeaders, Hdr.Date, v)), Txt.RawData)
            : v \in Bad.Dates}
        \cup {input("To", WithPayloadHeaders(base, WithHeader(BaseHeaders, Hdr.To, v)), Txt.RawData)
            : v \in Bad.Recipients}
        \cup {input("From", WithPayloadHeaders(base, WithHeader(BaseHeaders, Hdr.From, v)),
                    Txt.RawData) : v \in Bad.Senders}
        \cup {input("Authentication-Results",
                    WithPayloadHeaders(base,
                        WithHeader(BaseHeaders, Hdr.AuthenticationResults, v)), Txt.RawData)
            : v \in Bad.AuthResults}
        \cup {input("body", [base EXCEPT !.payload.body.data = v], Txt.RawData) : v \in Bad.Base64}
        \cup {input("raw", base, v) : v \in Bad.Base64}
        \cup {input("internalDate", [base EXCEPT !.internalDate = v], Txt.RawData)
            : v \in Bad.InternalDates}
        \cup {input("header", WithPayloadHeaders(base, << UnnamedHeader >> \o BaseHeaders),
                    Txt.RawData),
              input("header", WithPayloadHeaders(base, Append(BaseHeaders, UnnamedHeader)),
                    Txt.RawData)}

\* the messages derived from the well-formed message of id m by giving one
\* sub-field another well-formed value, each with the name of that sub-field
WellFormedInputs(m) ==
    LET base == BaseMessage(m)
        input(field, message) == [field |-> field, message |-> message, raw_source |-> Txt.RawData]
    IN  {input("To", WithPayloadHeaders(base, WithHeader(BaseHeaders, Hdr.To, v.text)))
            : v \in Good.Recipients}
        \cup {input("Authentication-Results",
                    WithPayloadHeaders(base,
                        WithHeader(BaseHeaders, Hdr.AuthenticationResults, v.text)))
            : v \in Good.AuthResults}
        \cup {input("Date", WithPayloadHeaders(base, WithHeader(BaseHeaders, Hdr.Date, v.text)))
            : v \in Good.Dates}
        \cup {input("From", WithPayloadHeaders(base, WithHeader(BaseHeaders, Hdr.From, v.text)))
            : v \in Good.Senders}
        \cup {input("headers", WithPayloadHeaders(base, v.headers)) : v \in Good.Headers}
        \cup {input("internalDate", [base EXCEPT !.internalDate = << v.text >>])
            : v \in Good.InternalDates}
        \cup {input("internalDate", [k \in DOMAIN base \ {"internalDate"} |-> base[k]])}
        \cup {input("Date", WithPayloadHeaders(base,
                                SelectSeq(BaseHeaders, LAMBDA h : h.name # Hdr.Date)))}
        \cup {input("payload",
                    [base EXCEPT !.payload = [mimeType |-> "multipart/mixed",
                                              headers |-> BaseHeaders, parts |-> v]])
            : v \in Good.Parts}
        \cup {input("message", FilesMessage(m, MaxItems)), input("message", SignedMessage(m)),
              input("message", RecipientsMessage(m)), input("message", NoFromMessage(m))}

\* the well-formed messages and the malformed ones
ExtractInputs ==
    UNION {MalformedInputs(m) \cup WellFormedInputs(m)
           \cup {[field |-> "none", message |-> BaseMessage(m), raw_source |-> Txt.RawData]}
           : m \in MsgIds}

\* the fields of the record that come from the sub-field
FieldsFrom(field) ==
    CASE field = "Date" -> {"sent_timestamp"}
      [] field = "To" -> {"to_recipients"}
      [] field = "From" -> {"sender", "sender_email", "sender_name"}
      [] field = "Authentication-Results" -> {"authentication_results"}
      [] field = "body" -> {"body_text", "body_html"}
      [] field = "raw" -> {"raw_source"}
      [] field = "internalDate" -> {"internal_date_ms"}
      [] field = "payload" ->
            {"mime_type", "body_text", "body_html", "attachments", "additional_parts"}
      [] field = "headers" -> {"subject", "date_received"}
      [] field = "message" -> DOMAIN RecordOf(BaseMessage("m1"))
      [] OTHER -> {}


\* no call of extract_email_data under way
NoExtract == [pc |-> "idle"]

\* GmailAPI.save_extracted_email_as_json: the content of <message_id>.json, or
\* no file (<<>>) when the record has no message id or the write fails.
\* json.dump(..., default=str) writes a datetime as str() of it, which is
\* isoformat(" "), and a tuple as an array.
save_extracted_email_as_json(extracted_email, io) ==
    LET message_id == Get(extracted_email, "message_id", None)
        document ==
            [k \in DOMAIN extracted_email |->
                IF k = "sent_timestamp"
                THEN IF extracted_email[k] = <<>> THEN <<>>
                     ELSE << [str |-> AdaptDatetime(extracted_email[k])] >>
                ELSE IF k \in {"to_recipients", "cc_recipients", "bcc_recipients"}
                THEN [i \in 1..Len(extracted_email[k]) |->
                        <<"array">> \o extracted_email[k][i]]
                ELSE extracted_email[k]]
    IN  IF message_id = None \/ message_id = "" THEN <<>>
        ELSE IF io # "ok" THEN <<>>
        ELSE << document >>

\* SQLiteDB.import_ExtractedEmailData: json.load of the file, an array read
\* as a list and a string as a str; None (<<>>) when there is no such file
import_ExtractedEmailData(file) == IF file = <<>> THEN <<>> ELSE << file[1] >>

\* extract_email_data runs on the message handed over and returns or raises
Extract ==
    /\ ext.pc = "called"
    /\ ext' = [ext EXCEPT !.pc = "done",
                          !.result = << extract_email_data(ext.message, ext.raw_source) >>]
    /\ UNCHANGED <<db, call, mailbox, run, listing>>

\* the record returned is saved as a JSON file
Save ==
    /\ ext.pc = "done" /\ ext.result[1].exc = None
    /\ \E io \in {"ok", "OSError"} :
        ext' = [ext EXCEPT !.pc = "saved",
                           !.file = save_extracted_email_as_json(ext.result[1].val, io)]
    /\ UNCHANGED <<db, call, mailbox, run, listing>>

\* the file, if there is one, is loaded again
Import ==
    /\ ext.pc = "saved"
    /\ ext' = [ext EXCEPT !.pc = "loaded", !.loaded = import_ExtractedEmailData(ext.file)]
    /\ UNCHANGED <<db, call, mailbox, run, listing>>

-----------------------------------------------------------------------------
(* main: one ingestion run after another *)

MaxRuns == 2      \* how many times main is started

\* the kinds of message a message id can hold in the mailbox: a plain one,
\* one without From header, one whose internalDate is no number, one with
\* attached files
MessageKinds == {"plain", "no_from", "malformed", "files"}


MessageOfKind(m, kind) ==
    CASE kind = "plain" -> BaseMessage(m)
      [] kind = "no_from" -> NoFromMessage(m)
      [] kind = "malformed" -> [BaseMessage(m) EXCEPT !.internalDate = << <<"a", "b", "c">> >>]
      [] kind = "files" -> FilesMessage(m, MaxItems)

\* what extract_email_data makes of each message the mailbox can hold
Extracted ==
    {[message_id |-> m, kind |-> kind,
      result |-> extract_email_data(MessageOfKind(m, kind), Txt.RawData)]
        : m \in MsgIds, kind \in MessageKinds}

\* the labels gmail.list_tags() returns and the messages listed under each:
\* every message is in INBOX and, in the opposite order, in WORK
GmailLabels == <<"INBOX", "WORK">>
Listing(lbl) ==
    IF lbl = "INBOX" THEN [i \in 1..NumMsgs |-> "m" \o ToString(i)]
    ELSE IF lbl = "WORK" THEN [i \in 1..NumMsgs |-> "m" \o ToString(NumMsgs + 1 - i)]
    ELSE <<>>

\* the values of the --label option tried: none, a label that exists, one that
\* does not
LabelOptions == { <<>>, <<"WORK">>, <<"OTHER">> }

\* how a request to the Gmail API ends: a response, an HttpError, or another
\* exception (a transport error, an expired credential)
ApiOutcomes == {"ok", "HttpError", "OtherError"}

Prefixes(s) == {SubSeq(s, 1, n) : n \in 0..Len(s)}

\* [l for l in all_available_labels if "Delete_Status" not in l]; no label of
\* the model contains "Delete_Status"
FilteredLabels(all_available_labels) == all_available_labels

\* the user's labels that are among the filtered ones, in the user's order
ValidUserLabels(label, filtered_labels) == SelectSeq(label, LAMBDA l : l \in Range(filtered_labels))

\* no run of main under way and none made
NoRun ==
    [pc |-> "idle", n |-> 0, update |-> FALSE, labels_to_process |-> <<>>,
     message_infos |-> <<>>, existing_ids |-> {}, message_id |-> None, email_data |-> <<>>,
     new_messages_found |-> 0, log |-> {}, listed |-> {}, start |-> EmptyDb, pre |-> EmptyDb,
     fetch_failure |-> None, last_insert |-> None, interrupted |-> FALSE, resumed |-> FALSE,
     conn |-> FALSE, creds |-> FALSE, token_file |-> FALSE, closed |-> 0, disconnected |-> 0,
     killed |-> FALSE]

\* a line printed by the run about message m (None: about no message)
Event(event, m) == [event |-> event, message_id |-> m]

\* GmailAPI.get_email_by_message_id: the record, None (<<>>) after an HttpError,
\* or the exception that leaves the method.  extracted_data is what
\* extract_email_data makes of the message fetched.
get_email_by_message_id(extracted_data, api) ==
    IF api = "HttpError" THEN Value(<<>>)
    ELSE IF api # "ok" THEN Raise(api)
    ELSE IF extracted_data.exc # None THEN extracted_data
    ELSE Value(<< extracted_data.val >>)

\* an exception raised inside insert_message's try block leaves the method
InsertExitRaising(outcome) == IF outcome = "failed" THEN "raises" ELSE "returns"

\* how insert_message ends for its caller: its except clause prints and returns
InsertExit(outcome) == "returns"

\* conn.close(), or the end of the process: a transaction not committed is
\* rolled back
CloseDb(committed, work) == committed

\* a disconnect that leaves the token file where it is
disconnect_keeping_token(client) == [creds |-> FALSE, token_file |-> client.token_file]

\* GmailAPI.disconnect: the credentials are cleared and the token file, when
\* there is one, is removed
disconnect(client) == [creds |-> FALSE, token_file |-> FALSE]

\* GmailAPI.connect: the credentials are loaded, refreshed or granted and the
\* token file is there afterwards; when connect raises, credentials may have
\* been loaded from a token file that exists, and no file has been written
connect(client, raises) ==
    IF raises
    THEN {[creds |-> c, token_file |-> client.token_file] : c \in {FALSE, client.token_file}}
    ELSE {[creds |-> TRUE, token_file |-> TRUE]}

\* how the first statements of main's try block end: every call returns,
\* list_tags catches an HttpError, or connect, open_db or list_tags raises
StartOutcomes == {"ok", "HttpError", "ConnectError", "OpenError", "ListError"}

\* an existing_ids that is never read from the database
ExistingIdsUnread(update, d) == {}

\* existing_ids: empty with --update, else the message_id of every emails row
ExistingIds(update, d) == IF update THEN {} ELSE {e.message_id : e \in d.emails}

\* main is started: it connects, opens the database, lists the labels, picks
\* those to process and reads the stored message ids when not updating
StartRun(update, label, tags) ==
    /\ run.pc \in {"idle", "ended"}
    /\ run.n < MaxRuns
    /\ \E client \in connect(run, tags = "ConnectError"),
          conn \in (IF tags = "ConnectError" THEN {FALSE}
                    ELSE IF tags = "OpenError" THEN BOOLEAN ELSE {TRUE}) :
       LET started == [NoRun EXCEPT !.n = run.n + 1, !.update = update, !.start = db,
                                    !.pre = db,
                                    !.resumed = (run.pc = "ended" /\ run.interrupted),
                                    !.conn = conn, !.creds = client.creds,
                                    !.token_file = client.token_file]
           all_available_labels == IF tags = "ok" THEN GmailLabels ELSE <<>>
           filtered_labels == FilteredLabels(all_available_labels)
           valid_user_labels == ValidUserLabels(label, filtered_labels)
           labels_to_process == IF label # <<>> THEN valid_user_labels ELSE filtered_labels
       IN  IF tags \in {"ConnectError", "OpenError", "ListError"}
           THEN run' = [started EXCEPT !.pc = "closing",
                                       !.log = {Event("unexpected_error", None)}]
           ELSE IF all_available_labels = <<>>
           THEN run' = [started EXCEPT !.pc = "closing", !.log = {Event("no_labels", None)}]
           ELSE IF label # <<>> /\ valid_user_labels = <<>>
           THEN run' = [started EXCEPT !.pc = "closing",
                                       !.log = {Event("no_valid_label", None)}]
           ELSE run' = [started EXCEPT !.pc = "labels",
                            !.labels_to_process = labels_to_process,
                            !.existing_ids = ExistingIds(update, db)]
    /\ UNCHANGED <<db, call, ext, mailbox, listing>>

\* the label loop: the next label's messages are listed; an HttpError while
\* listing cuts the list short; after the last label the run ends normally
NextLabel ==
    /\ run.pc = "labels"
    /\ IF run.labels_to_process = <<>>
       THEN run' = [run EXCEPT !.pc = "closing", !.fetch_failure = None, !.last_insert = None]
       ELSE \E message_infos \in Prefixes(Listing(Head(run.labels_to_process))) :
            run' = [run EXCEPT !.pc = IF message_infos = <<>> THEN "labels" ELSE "messages",
                               !.labels_to_process = Tail(@),
                               !.message_infos = message_infos,
                               !.listed = @ \cup Range(message_infos),
                               !.new_messages_found = 0,
                               !.fetch_failure = None, !.last_insert = None]
    /\ UNCHANGED <<db, call, ext, mailbox, listing>>

\* every message of the label has been looked at
FinishLabel ==
    /\ run.pc = "messages" /\ run.message_infos = <<>>
    /\ run' = [run EXCEPT !.pc = "labels", !.fetch_failure = None, !.last_insert = None]
    /\ UNCHANGED <<db, call, ext, mailbox, listing>>

\* "if not update and message_id in existing_ids: continue"
SkipExisting ==
    /\ run.pc = "messages" /\ run.message_infos # <<>>
    /\ ~run.update /\ Head(run.message_infos) \in run.existing_ids
    /\ run' = [run EXCEPT !.message_infos = Tail(@), !.message_id = Head(run.message_infos),
                          !.fetch_failure = None, !.last_insert = None]
    /\ UNCHANGED <<db, call, ext, mailbox, listing>>

\* the message is fetched and normalised: None is passed over, a record goes
\* on to insert_message, an exception reaches main's "except Exception"
Fetch ==
    /\ run.pc = "messages" /\ run.message_infos # <<>>
    /\ run.update \/ Head(run.message_infos) \notin run.existing_ids
    /\ \E api \in ApiOutcomes, stored \in Extracted :
        /\ stored.message_id = Head(run.message_infos)
        /\ stored.kind = mailbox[stored.message_id]
        /\ LET message_id == Head(run.message_infos)
               email_data == get_email_by_message_id(stored.result, api)
               at == [run EXCEPT !.message_id = message_id, !.last_insert = None]
           IN  IF email_data.exc # None
               THEN run' = [at EXCEPT !.pc = "closing", !.fetch_failure = email_data.exc,
                                      !.log = @ \cup {Event("unexpected_error", None)}]
               ELSE IF email_data.val = <<>>
               THEN run' = [at EXCEPT !.message_infos = Tail(@), !.fetch_failure = api,
                                      !.log = @ \cup {Event("fetch_error", message_id)}]
               ELSE run' = [at EXCEPT !.pc = "fetched", !.email_data = email_data.val,
                                      !.fetch_failure = None]
    /\ UNCHANGED <<db, call, ext, mailbox, listing>>

\* db.insert_message(email_data, update_if_exists=update), then the count
Insert ==
    /\ run.pc = "fetched"
    /\ LET r == run.email_data[1] IN
       \E addrOrder \in Orderings(AddressPairs(r)), failAt \in FailPoints(r) :
        LET res == InsertResult(db, r, run.update, addrOrder, failAt)
            printed == Event(CASE res.outcome = "committed" -> "inserted"
                               [] res.outcome = "failed" -> "insert_failed"
                               [] res.outcome = "skipped" -> "insert_skipped",
                             run.message_id)
            at == [run EXCEPT !.email_data = <<>>, !.pre = db, !.last_insert = res.outcome,
                              !.fetch_failure = None, !.log = @ \cup {printed}]
        IN  /\ db' = res.db
            /\ IF InsertExit(res.outcome) = "raises"
               THEN run' = [at EXCEPT !.pc = "closing",
                                      !.log = @ \cup {Event("unexpected_error", None)}]
               ELSE run' = [at EXCEPT !.pc = "messages", !.message_infos = Tail(@),
                                      !.new_messages_found = @ + 1]
    /\ UNCHANGED <<call, ext, mailbox, listing>>

\* the run is interrupted (Ctrl-C, or the process is killed): wherever it
\* stands, also between two statements of insert_message, what was not
\* committed is lost; a killed process does not reach its finally block
Interrupt ==
    /\ run.pc \in {"labels", "messages", "fetched"}
    /\ \E killed \in BOOLEAN :
        /\ run' = [run EXCEPT !.pc = IF killed THEN "ended" ELSE "closing",
                              !.interrupted = TRUE, !.killed = killed, !.email_data = <<>>,
                              !.fetch_failure = None, !.last_insert = None]
        /\ IF run.pc = "fetched"
           THEN LET r == run.email_data[1] IN
                \E addrOrder \in Orderings(AddressPairs(r)), stopAt \in FailPoints(r) :
                    db' = CloseDb(db, ExecFrom(db, InsertStatements(r, addrOrder), 1, stopAt).db)
           ELSE db' = CloseDb(db, db)
    /\ UNCHANGED <<call, ext, mailbox, listing>>

\* the finally block: close_db and disconnect
Close ==
    /\ run.pc = "closing"
    /\ db' = CloseDb(db, db)
    /\ run' = [run EXCEPT !.pc = "ended", !.fetch_failure = None, !.last_insert = None,
                          !.conn = FALSE, !.closed = @ + 1,
                          !.creds = disconnect(run).creds,
                          !.token_file = disconnect(run).token_file,
                          !.disconnected = @ + 1]
    /\ UNCHANGED <<call, ext, mailbox, listing>>

-----------------------------------------------------------------------------
(* The query-based listings: messages().list page after page *)

MaxPages == 3     \* how many pages the source holds for a query at most

\* the pages the source holds for a query: each page lists no message or one;
\* every page but the last carries a nextPageToken, which names the next page
PageSources ==
    LET contents == {<<>>} \cup {<<m>> : m \in MsgIds}
        pages(c) == [i \in 1..Len(c) |->
                        IF i < Len(c) THEN [messages |-> c[i], nextPageToken |-> i + 1]
                        ELSE [messages |-> c[i]]]
    IN  UNION {{pages(c) : c \in [1..n -> contents]} : n \in 1..MaxPages}

\* no listing under way
NoListing ==
    [pc |-> "idle", op |-> None, pages |-> <<>>, page_token |-> <<>>, requested |-> <<>>,
     out |-> <<>>, exc |-> None]

\* one pass of the loop of get_message_ids_and_thread_ids_by_query: the page is
\* requested, its messages are appended, and the loop ends when the page has
\* no nextPageToken; an HttpError ends the loop with what was collected, any
\* other exception leaves the method
ListIds ==
    /\ listing.pc = "paging" /\ listing.op = "get_message_ids_and_thread_ids_by_query"
    /\ \E api \in ApiOutcomes :
        LET page == IF listing.page_token = <<>> THEN 1 ELSE listing.page_token[1]
            results == listing.pages[page]
            at == [listing EXCEPT !.requested = Append(@, page)]
        IN  IF api # "ok"
            THEN listing' = [at EXCEPT !.pc = "done", !.exc = api]
            ELSE listing' = [at EXCEPT !.out = @ \o Get(results, "messages", <<>>),
                                       !.page_token =
                                            IF Has(results, "nextPageToken")
                                            THEN << results.nextPageToken >> ELSE <<>>,
                                       !.pc = IF Has(results, "nextPageToken")
                                              THEN "paging" ELSE "done"]
    /\ UNCHANGED <<db, call, ext, mailbox, run>>

\* one pass of the loop of yield_emails_from_query, the generator being run to
\* its end: the page is requested; a page without messages ends the loop;
\* else each message is fetched and yielded unless its fetch gave None, and
\* the loop ends when the page has no nextPageToken.  An HttpError of the
\* list request ends the generator, any other exception leaves it.
YieldEmails ==
    /\ listing.pc = "paging" /\ listing.op = "yield_emails_from_query"
    /\ \E api \in ApiOutcomes, fetch \in ApiOutcomes :
        LET page == IF listing.page_token = <<>> THEN 1 ELSE listing.page_token[1]
            results == listing.pages[page]
            messages == Get(results, "messages", <<>>)
            at == [listing EXCEPT !.requested = Append(@, page)]
        IN  IF api # "ok"
            THEN listing' = [at EXCEPT !.pc = "done", !.exc = api]
            ELSE IF messages = <<>>
            THEN listing' = [at EXCEPT !.pc = "done"]
            ELSE IF fetch = "OtherError"
            THEN listing' = [at EXCEPT !.pc = "done", !.exc = fetch]
            ELSE listing' = [at EXCEPT !.out = IF fetch = "ok" THEN @ \o messages ELSE @,
                                       !.page_token =
                                            IF Has(results, "nextPageToken")
                                            THEN << results.nextPageToken >> ELSE <<>>,
                                       !.pc = IF Has(results, "nextPageToken")
                                              THEN "paging" ELSE "done"]
    /\ UNCHANGED <<db, call, ext, mailbox, run>>

-----------------------------------------------------------------------------
(* The persistence layer used directly: any sequence of calls *)

Idle ==
    [pc |-> "idle", op |-> "none", message_id |-> None, rec |-> <<>>,
     update_if_exists |-> FALSE, confirm |-> FALSE, outcome |-> "none", pre |-> EmptyDb]

\* a caller invokes insert_message(r, update_if_exists)
CallInsert(r, u) ==
    /\ call.pc = "idle"
    /\ call' = [Idle EXCEPT !.pc = "called", !.op = "insert_message",
                            !.message_id = r.message_id, !.rec = <<r>>,
                            !.update_if_exists = u, !.pre = db]
    /\ UNCHANGED <<db, ext, mailbox, run, listing>>

\* a caller invokes delete_email(m, confirm)
CallDelete(m, c) ==
    /\ call.pc = "idle"
    /\ call' = [Idle EXCEPT !.pc = "called", !.op = "delete_email", !.message_id = m,
                            !.confirm = c, !.pre = db]
    /\ UNCHANGED <<db, ext, mailbox, run, listing>>

\* the call returns to its caller
Return ==
    /\ call.pc = "done"
    /\ call' = Idle
    /\ UNCHANGED <<db, ext, mailbox, run, listing>>

\* no mailbox is attached
NoMailbox == <<>>

Init ==
    /\ db = EmptyDb
    /\ call = Idle
    /\ ext = NoExtract
    /\ mailbox = NoMailbox
    /\ run = NoRun
    /\ listing = NoListing

Next ==
    \/ \E r \in Records, u \in BOOLEAN : CallInsert(r, u)
    \/ \E m \in MsgIds, c \in BOOLEAN : CallDelete(m, c)
    \/ InsertMessage
    \/ DeleteEmail
    \/ Return

Spec == Init /\ [][Next]_vars

-----------------------------------------------------------------------------
(* The normaliser on its own: one call per behaviour *)

InitExtract ==
    /\ db = EmptyDb
    /\ call = Idle
    /\ mailbox = NoMailbox
    /\ run = NoRun
    /\ listing = NoListing
    /\ \E i \in ExtractInputs :
        ext = [pc |-> "called", field |-> i.field, message |-> i.message,
               raw_source |-> i.raw_source, result |-> <<>>, file |-> <<>>, loaded |-> <<>>]

NextExtract ==
    \/ Extract
    \/ Save
    \/ Import

SpecExtract == InitExtract /\ [][NextExtract]_vars

-----------------------------------------------------------------------------
(* The listings on their own: one listing per behaviour *)

InitListing ==
    /\ db = EmptyDb
    /\ call = Idle
    /\ ext = NoExtract
    /\ mailbox = NoMailbox
    /\ run = NoRun
    /\ \E op \in {"get_message_ids_and_thread_ids_by_query", "yield_emails_from_query"},
          pages \in PageSources :
        listing = [NoListing EXCEPT !.pc = "paging", !.op = op, !.pages = pages]

NextListing ==
    \/ ListIds
    \/ YieldEmails

SpecListing == InitListing /\ [][NextListing]_vars

-----------------------------------------------------------------------------
(* Runs of main over a mailbox *)

InitMain ==
    /\ db = EmptyDb
    /\ call = Idle
    /\ ext = NoExtract
    /\ mailbox \in [MsgIds -> MessageKinds]
    /\ run = NoRun
    /\ listing = NoListing

NextMain ==
    \/ \E update \in BOOLEAN, label \in LabelOptions, tags \in StartOutcomes :
            StartRun(update, label, tags)
    \/ NextLabel
    \/ FinishLabel
    \/ SkipExisting
    \/ Fetch
    \/ Insert
    \/ Interrupt
    \/ Close

SpecMain == InitMain /\ [][NextMain]_vars

-----------------------------------------------------------------------------
(* Properties of the persistence layer *)

\* the rows the record r asks for in each child table
AttachmentRowsOf(r) ==
    [i \in 1..Len(r.attachments) |-> AttachmentRow(r.message_id, r.attachments[i])]
XHeaderRowsOf(r) ==
    [i \in 1..Len(r.xheaders) |-> XHeaderRow(r.message_id, r.xheaders[i])]
LabelRowsOf(r) ==
    [i \in 1..Len(r.labels) |-> LabelRow(r.message_id, r.labels[i])]
AuthRowsOf(r) ==
    IF Len(r.authentication_results) = 1
    THEN << AuthRow(r.message_id, r.authentication_results[1]) >>
    ELSE <<>>

HasRow(d, m) == \E e \in d.emails : e.message_id = m

\* insert_message(update_if_exists) has just ended with the given outcome
InsertEnded(update, outcome) ==
    /\ call.pc = "done" /\ call.op = "insert_message"
    /\ call.update_if_exists = update /\ call.outcome = outcome

\* C1: when insert_message(update_if_exists=True) commits for a message id
\* that already had a row, emails holds exactly one row for the id, and the
\* attachment, X-header and label rows of the id are exactly those of the
\* record just written.
C1_UpsertKeepsLatest ==
    (InsertEnded(TRUE, "committed") /\ HasRow(call.pre, call.message_id)) =>
        LET r == call.rec[1]
            m == call.message_id
        IN  /\ Cardinality({e \in db.emails : e.message_id = m}) = 1
            /\ SelectRows(db.email_attachments, m) = AttachmentRowsOf(r)
            /\ SelectRows(db.email_xheaders, m) = XHeaderRowsOf(r)
            /\ SelectRows(db.email_labels, m) = LabelRowsOf(r)

\* a second commit whose record has other attachments, X-headers and labels
\* than the rows stored by the first, which had some
C1_Witness ==
    /\ InsertEnded(TRUE, "committed") /\ HasRow(call.pre, call.message_id)
    /\ LET r == call.rec[1]
           m == call.message_id
       IN  /\ SelectRows(call.pre.email_attachments, m) # <<>>
           /\ SelectRows(call.pre.email_labels, m) # <<>>
           /\ SelectRows(call.pre.email_attachments, m) # AttachmentRowsOf(r)
           /\ SelectRows(call.pre.email_xheaders, m) # XHeaderRowsOf(r)
           /\ SelectRows(call.pre.email_labels, m) # LabelRowsOf(r)

\* C2: after insert_message(update_if_exists=True) commits for message id m,
\* the email_authentication rows of m are exactly the record's authentication
\* result: one row when it has one, none when it is absent, whatever was
\* stored before.
C2_AuthenticationReplaced ==
    InsertEnded(TRUE, "committed") =>
        SelectRows(db.email_authentication, call.message_id) = AuthRowsOf(call.rec[1])

\* an authentication row was stored for m and the new record has no result
C2_Witness ==
    /\ InsertEnded(TRUE, "committed")
    /\ SelectRows(call.pre.email_authentication, call.message_id) # <<>>
    /\ call.rec[1].authentication_results = <<>>

\* C3: when insert_message fails after its write has begun, every table is
\* as it was before the call.
C3_FailureRollsBack ==
    (call.pc = "done" /\ call.op = "insert_message" /\ call.outcome = "failed") =>
        db = call.pre

\* the insert of the emails row failed on the sender's foreign key after the
\* address rows of the recipients had been written
C3_Witness ==
    /\ call.pc = "done" /\ call.op = "insert_message" /\ call.outcome = "failed"
    /\ call.rec[1].sender_email = ""
    /\ call.rec[1].to_recipients # <<>>
    /\ ~ \E a \in call.pre.email_address : a.email = call.rec[1].to_recipients[1][2]

\* C4: insert_message(update_if_exists=False) for a message id that already
\* has a row changes no table.
C4_SkipChangesNothing ==
    (call.pc = "done" /\ call.op = "insert_message" /\ ~call.update_if_exists
        /\ HasRow(call.pre, call.message_id)) =>
        /\ db = call.pre
        /\ call.outcome = "skipped"

\* the skipped record differs from the stored one and names a new address
C4_Witness ==
    /\ InsertEnded(FALSE, "skipped")
    /\ EmailRow(call.rec[1]) \notin call.pre.emails
    /\ call.rec[1].to_recipients # <<>>
    /\ ~ \E a \in call.pre.email_address : a.email = call.rec[1].to_recipients[1][2]

\* C9: every row of the five child tables has the message_id of an existing
\* emails row, after any sequence of committed insert_message and
\* delete_email calls.
C9_NoOrphanChild ==
    \A t \in ChildTables : \A i \in 1..Len(db[t]) : HasRow(db, db[t][i].message_id)

\* delete_email removed a message that had rows in all five child tables
\* while another message keeps child rows
C9_Witness ==
    /\ call.pc = "done" /\ call.op = "delete_email" /\ call.outcome = "committed"
    /\ SelectRows(call.pre.email_attachments, call.message_id) # <<>>
    /\ SelectRows(call.pre.email_routing_headers, call.message_id) # <<>>
    /\ \E t \in ChildTables : db[t] # <<>>

-----------------------------------------------------------------------------
(* Properties of extract_email_data *)

\* C5: extract_email_data returns a record for every message in which one
\* sub-field is malformed: no exception leaves the function, and every field
\* of the record that does not come from that sub-field is what it is for the
\* well-formed message.
C5_MalformedFieldDegrades ==
    ext.pc = "done" =>
        LET result == ext.result[1]
            base == extract_email_data(BaseMessage(ext.message.id), Txt.RawData).val
        IN  /\ result.exc = None
            /\ \A k \in DOMAIN base \ FieldsFrom(ext.field) : result.val[k] = base[k]

-----------------------------------------------------------------------------
(* Properties of the run of main *)

\* every row of message m, table by table
RowsOf(d, m) ==
    [emails |-> {e \in d.emails : e.message_id = m},
     email_attachments |-> SelectRows(d.email_attachments, m),
     email_xheaders |-> SelectRows(d.email_xheaders, m),
     email_labels |-> SelectRows(d.email_labels, m),
     email_routing_headers |-> SelectRows(d.email_routing_headers, m),
     email_authentication |-> SelectRows(d.email_authentication, m)]

\* the rows a committed insert_message of record r leaves for its message
RowsWritten(r) ==
    [emails |-> {EmailRow(r)},
     email_attachments |-> AttachmentRowsOf(r),
     email_xheaders |-> XHeaderRowsOf(r),
     email_labels |-> LabelRowsOf(r),
     email_routing_headers |->
        [i \in 1..Len(Get(r, "routing_headers", <<>>)) |->
            RoutingRow(r.message_id, r.routing_headers[i])],
     email_authentication |-> AuthRowsOf(r)]

\* what extract_email_data makes of the message the mailbox holds for m
Normalised(m) ==
    (CHOOSE e \in Extracted : e.message_id = m /\ e.kind = mailbox[m]).result

\* message m is stored with every row of its record
StoredWhole(d, m) ==
    /\ Normalised(m).exc = None
    /\ RowsOf(d, m) = RowsWritten(Normalised(m).val)

\* no table holds a row of message m
NotStored(d, m) == RowsOf(d, m) = RowsOf(EmptyDb, m)

C7_FetchFailureSkipsMessage ==
    run.fetch_failure # None =>
        /\ run.pc = "messages"
        /\ Event("fetch_error", run.message_id) \in run.log

\* the fetch and the insert of message m can succeed and nothing failed for m
\* in this run
Fetchable(m) ==
    /\ Normalised(m).exc = None
    /\ Event("fetch_error", m) \notin run.log
    /\ Event("insert_failed", m) \notin run.log
    /\ ~(Event("unexpected_error", None) \in run.log /\ run.message_id = m)

\* C8: no message is ever stored partially; when a run is interrupted every
\* message it inserted is stored whole; and when a later run without --update
\* has ended, every message it listed that is fetchable and was not present
\* is stored whole, and the rows of the messages that were present are
\* unchanged.
C8_InterruptedRunResumes ==
    /\ \A m \in MsgIds : NotStored(db, m) \/ StoredWhole(db, m)
    /\ (run.pc = "ended" /\ run.interrupted) =>
            \A m \in MsgIds : Event("inserted", m) \in run.log => StoredWhole(db, m)
    /\ (run.pc = "ended" /\ run.resumed /\ ~run.interrupted /\ ~run.update) =>
            /\ \A m \in run.listed :
                    (Fetchable(m) /\ ~HasRow(run.start, m)) => StoredWhole(db, m)
            /\ \A m \in MsgIds :
                    HasRow(run.start, m) => RowsOf(db, m) = RowsOf(run.start, m)

-----------------------------------------------------------------------------
(* Properties of the JSON interchange file *)

\* C11: when a record made by extract_email_data has been saved and loaded
\* again, the loaded record equals the record in every field, and
\* insert_message executes the same statements for both.
C11_JsonRoundTrip ==
    (ext.pc = "loaded" /\ ext.file # <<>>) =>
        LET r == ext.result[1].val IN
        /\ ext.loaded = << r >>
        /\ \A addrOrder \in Orderings(AddressPairs(r)) :
                InsertStatements(ext.loaded[1], addrOrder) = InsertStatements(r, addrOrder)

\* the statements of insert_message are the same for the loaded record
C11_SameRowsStored ==
    (ext.pc = "loaded" /\ ext.file # <<>>) =>
        LET r == ext.result[1].val IN
        /\ AddressPairs(ext.loaded[1]) = AddressPairs(r)
        /\ \A addrOrder \in Orderings(AddressPairs(r)) :
                InsertStatements(ext.loaded[1], addrOrder) = InsertStatements(r, addrOrder)

-----------------------------------------------------------------------------
(* Properties of the parsers inside extract_email_data *)

\* the call under way or done is on the well-formed message with the header
\* called name set to value
CalledWithHeader(name, value) ==
    /\ ext.pc # "idle" /\ ext.raw_source = Txt.RawData
    /\ ext.message =
            WithPayloadHeaders(BaseMessage(ext.message.id), WithHeader(BaseHeaders, name, value))

\* C13: for a To header of the form "Name" <addr>, the display name in double
\* quotes, the record's to_recipients is the one pair (Name, addr).
C13_QuotedNameParsed ==
    \A v \in Good.Recipients :
        (ext.pc = "done" /\ v.form = "quoted" /\ CalledWithHeader(Hdr.To, v.text)) =>
            /\ ext.result[1].exc = None
            /\ ext.result[1].val.to_recipients = v.recipients

\* the recipients are parsed in header order, a bare address with the empty
\* name, a repeated address kept; an empty or absent header gives the empty list
C14_ListParsedInOrder ==
    ext.pc = "done" =>
        /\ \A v \in Good.Recipients :
                (v.form \in {"list", "empty"} /\ CalledWithHeader(Hdr.To, v.text)) =>
                    /\ ext.result[1].exc = None
                    /\ ext.result[1].val.to_recipients = v.recipients
        /\ ext.field = "none" =>
                /\ ext.result[1].exc = None
                /\ ext.result[1].val.to_recipients = <<>>

\* C14: parse_recipients gives one pair per recipient in header order, the
\* empty name to a bare address, keeps a repeated address, and gives the empty
\* list, no error, for an empty, absent or malformed header.
C14_RecipientsParsed ==
    /\ C14_ListParsedInOrder
    /\ \A v \in Bad.Recipients :
            (ext.pc = "done" /\ CalledWithHeader(Hdr.To, v)) =>
                /\ ext.result[1].exc = None
                /\ ext.result[1].val.to_recipients = <<>>

\* the record returned by the call that is done
Returned == ext.result[1].val

\* every entry of the list carries the message id of the record returned
OwnedEntries(entries) ==
    \A i \in 1..Len(entries) :
        Has(entries[i], "message_id") /\ entries[i].message_id = Returned.message_id

\* C12: in the record built by extract_email_data every entry of attachments,
\* xheaders, labels, authentication_results and additional_parts carries a
\* message_id equal to the record's message_id.
C12_ChildrenCarryMessageId ==
    (ext.pc = "done" /\ ext.result[1].exc = None) =>
        /\ OwnedEntries(Returned.attachments)
        /\ OwnedEntries(Returned.xheaders)
        /\ OwnedEntries(Returned.labels)
        /\ OwnedEntries(Returned.authentication_results)
        /\ OwnedEntries(Returned.additional_parts)

\* the entries that extract_email_data builds with message["id"] carry it
C12_KeyedChildrenCarryMessageId ==
    (ext.pc = "done" /\ ext.result[1].exc = None) =>
        /\ OwnedEntries(Returned.attachments)
        /\ OwnedEntries(Returned.xheaders)
        /\ OwnedEntries(Returned.labels)

RECURSIVE Preorder(_)
\* the nodes of a part tree depth first, each node before its children, the
\* children in their own order
Preorder(parts) ==
    IF parts = <<>> THEN <<>>
    ELSE << Head(parts) >>
         \o (IF Has(Head(parts), "parts") THEN Preorder(Head(parts).parts) ELSE <<>>)
         \o Preorder(Tail(parts))

\* the nodes of the list whose mimeType is t and that carry inline data
BodyNodes(nodes, t) ==
    SelectSeq(nodes, LAMBDA n : n.mimeType = t /\ Has(n.body, "data"))

\* the decoded data of the first such node, None when there is none
FirstBody(parts, t) ==
    IF BodyNodes(Preorder(parts), t) = <<>> THEN None
    ELSE Join(UrlsafeB64DecodeText(Head(BodyNodes(Preorder(parts), t)).body.data).val)

\* C16: for a multipart payload the text body and the HTML body of the record
\* are the decoded data of the first node, depth first, of type text/plain
\* and text/html that carries inline data, and None when the tree has none.
C16_FirstBodyDepthFirst ==
    (ext.pc = "done" /\ ext.field = "payload") =>
        /\ ext.result[1].exc = None
        /\ Returned.body_text = FirstBody(ext.message.payload.parts, "text/plain")
        /\ Returned.body_html = FirstBody(ext.message.payload.parts, "text/html")

\* the attachment entry of a part
AttachmentEntry(part) ==
    [message_id |-> ext.message.id, filename |-> part.filename, mime_type |-> part.mimeType,
     attachment_size |-> part.body.size]

\* the additional_parts entry of a part
AdditionalEntry(part) ==
    [part_id |-> part.partId, mime_type |-> part.mimeType, filename |-> part.filename,
     size |-> part.body.size]

\* the image of a list under f
Map(f(_), list) == [i \in 1..Len(list) |-> f(list[i])]

AuthResultsParsed(forms) ==
    \A v \in Good.AuthResults :
        (ext.pc = "done" /\ v.form \in forms
            /\ CalledWithHeader(Hdr.AuthenticationResults, v.text)) =>
            /\ ext.result[1].exc = None
            /\ Returned.authentication_results = v.results

\* on a header of one line in which whitespace follows each status, the three
\* results are found independently of each other and of the fields in between
C15_SpacedAuthResultsParsed == AuthResultsParsed({"spaced"})

\* C15: the record has spf_status and spf_domain iff the header has spf=<word>
\* followed later by header.from=<domain>, dkim_status and dkim_domain iff it
\* has dkim=<word> followed later by header.d=<domain>, dmarc_status iff it has
\* dmarc=<word>; authentication_results is None iff none of the three is there
\* or the header is absent, whatever fields stand between the tokens.
C15_AuthResultsParsed ==
    /\ AuthResultsParsed({"spaced", "tight", "folded"})
    /\ (ext.pc = "done" /\ ext.field = "none") =>
            ext.result[1].exc = None /\ Returned.authentication_results = <<>>

C19_SenderResolved ==
    \A v \in Good.Senders :
        (ext.pc = "done" /\ CalledWithHeader(Hdr.From, v.text)) =>
            /\ ext.result[1].exc = None
            /\ Returned.sender_email = v.sender_email
            /\ Returned.sender_name = v.sender_name
            /\ v.form = "bare" => Returned.sender_name = None

\* the sender of a From header with a display name in double quotes was resolved
C19_Witness ==
    /\ ext.pc = "done" /\ ext.field = "From"
    /\ CalledWithHeader(Hdr.From, <<"\"", "A", "n", "n", " ", "L", "e", "e", "\"", " ", "<",
                                    "a", "@", "x", ".", "i", "o", ">">>)
    /\ Returned.sender_name = "Ann Lee" /\ Returned.sender_email = "a@x.io"

\* C20: get_header gives the value of the first entry of the header list whose
\* name is the name asked for, letter case aside, and None when there is no
\* such entry; of several Received headers the first one is returned.
C20_FirstHeaderReturned ==
    \A v \in Good.Headers :
        (ext.pc = "done" /\ ext.field = "headers" /\ ext.message.payload.headers = v.headers) =>
            /\ ext.result[1].exc = None
            /\ Returned.subject = v.subject
            /\ Returned.date_received = v.date_received

\* the list holds the name asked for three times, in two spellings, and the
\* value of the first entry was returned
C20_Witness ==
    /\ ext.pc = "done" /\ ext.field = "headers"
    /\ LET headers == ext.message.payload.headers
           received == SelectSeq(headers, LAMBDA h : Lower(h.name) = Lower(Hdr.Received))
       IN  /\ Len(received) >= 2
           /\ received[1].value # received[2].value
           /\ Returned.date_received = Join(received[1].value)
           /\ \E i \in 1..Len(headers) :
                    headers[i].name # Hdr.Subject /\ Lower(headers[i].name) = Lower(Hdr.Subject)

\* internal_date_ms is the number the source's internalDate stands for, and 0
\* for a source without internalDate
C21_InternalDateFromSource ==
    (ext.pc = "done" /\ ext.field = "internalDate" /\ ext.result[1].exc = None) =>
        /\ ~Has(ext.message, "internalDate") => Returned.internal_date_ms = 0
        /\ \A v \in Good.InternalDates :
                (Has(ext.message, "internalDate") /\ ext.message.internalDate = << v.text >>) =>
                    Returned.internal_date_ms = v.millis

\* C21: the internal_date_ms of every record that extract_email_data returns
\* is an integer greater than or equal to 0: the source's internalDate when it
\* has one, and 0 only when it has none.
C21_InternalDateNonNegative ==
    /\ C21_InternalDateFromSource
    /\ (ext.pc = "done" /\ ext.result[1].exc = None) => Returned.internal_date_ms \in Nat

\* the nodes of the payload tree that the entry describes
DescribedBy(entry, parts) ==
    SelectSeq(Preorder(parts),
              LAMBDA n : /\ n.partId = entry.part_id /\ n.mimeType = entry.mime_type
                         /\ n.filename = entry.filename /\ n.body.size = entry.size)

\* C24: for a multipart payload every entry of additional_parts describes a
\* node of the payload tree without child parts, of a type other than
\* text/plain and text/html, and without filename; a container node has no
\* entry.
C24_AdditionalPartsAreLeaves ==
    (ext.pc = "done" /\ ext.field = "payload" /\ ext.result[1].exc = None) =>
        \A i \in 1..Len(Returned.additional_parts) :
            LET nodes == DescribedBy(Returned.additional_parts[i], ext.message.payload.parts)
            IN  /\ nodes # <<>>
                /\ \A k \in 1..Len(nodes) :
                        /\ ~Has(nodes[k], "parts")
                        /\ nodes[k].mimeType \notin {"text/plain", "text/html"}
                        /\ nodes[k].filename = ""

\* every entry of additional_parts describes a node without filename of a type
\* other than text/plain and text/html
C24_AdditionalPartsAreNeitherTextNorFile ==
    (ext.pc = "done" /\ ext.field = "payload" /\ ext.result[1].exc = None) =>
        \A i \in 1..Len(Returned.additional_parts) :
            LET nodes == DescribedBy(Returned.additional_parts[i], ext.message.payload.parts)
            IN  /\ nodes # <<>>
                /\ \A k \in 1..Len(nodes) :
                        /\ nodes[k].mimeType \notin {"text/plain", "text/html"}
                        /\ nodes[k].filename = ""

-----------------------------------------------------------------------------
(* Further properties of the run of main *)

\* a run without --update is in its label loop or its message loop
Deduplicating == run.pc \in {"labels", "messages", "fetched"} /\ ~run.update

\* C22: in a run of main without --update, existing_ids holds the message ids
\* that were stored when the run began and does not change while the run
\* lasts; a listed message whose id is in it is passed over without a fetch,
\* and none of its rows is written.
C22_ExistingIdsReadOnce ==
    /\ [](Deduplicating =>
            /\ run.existing_ids = {e.message_id : e \in run.start.emails}
            /\ \A m \in run.existing_ids : RowsOf(db, m) = RowsOf(run.start, m))
    /\ [][(Deduplicating /\ run'.n = run.n) => run'.existing_ids = run.existing_ids]_vars
    /\ [][(/\ Deduplicating /\ run.pc = "messages" /\ run.message_infos # <<>>
            /\ Head(run.message_infos) \in run.existing_ids)
                => (run'.pc # "fetched" /\ run'.log = run.log /\ db' = db)]_vars

\* a stored message was listed and passed over, and another message was
\* inserted later in the same run
C22_Witness ==
    /\ Deduplicating /\ run.existing_ids # {}
    /\ \E m \in run.listed : m \in run.existing_ids
    /\ \E m \in MsgIds : m \notin run.existing_ids /\ Event("inserted", m) \in run.log

-----------------------------------------------------------------------------
(* Properties of the listings *)

\* the pages were asked for in order from the first, each once, and when the
\* listing ended without an error the last page asked for is the source's last
VisitedInOrder ==
    /\ listing.requested = [i \in 1..Len(listing.requested) |-> i]
    /\ (listing.pc = "done" /\ listing.exc = None) =>
            Len(listing.requested) = Len(listing.pages)

\* get_message_ids_and_thread_ids_by_query asks for every page once, in
\* order, and returns the messages of all of them
C23_IdsListingVisitsEveryPage ==
    listing.op = "get_message_ids_and_thread_ids_by_query" =>
        /\ VisitedInOrder
        /\ (listing.pc = "done" /\ listing.exc = None) =>
                \A i \in 1..Len(listing.pages) :
                    \A m \in Range(listing.pages[i].messages) : m \in Range(listing.out)

\* C23: a query-based listing asks for the next page as long as the previous
\* page carried a continuation token and stops only at a page without token
\* or at an error; over finitely many pages it ends after it has asked for
\* every page once, in order.
C23_ListingVisitsEveryPage ==
    listing.pc # "idle" => VisitedInOrder

\* C25: the count of processed messages that is printed when a label is
\* finished is the number of messages inserted or updated in the store for
\* that label: the count starts at 0 and goes up by one exactly when an
\* insert_message is committed, never for an insert that failed or was
\* skipped.
C25_ProcessedCountsCommitted ==
    [][/\ (run.pc = "labels" /\ run'.pc = "messages") => run'.new_messages_found = 0
       /\ (run.pc = "fetched" /\ run'.pc = "messages") =>
                run'.new_messages_found =
                    run.new_messages_found + (IF run'.last_insert = "committed" THEN 1 ELSE 0)
       /\ (run.pc = "messages" /\ run'.n = run.n) =>
                run'.new_messages_found = run.new_messages_found]_vars

\* the count goes up by one with every insert_message that returns, whatever
\* its outcome, and with nothing else
C25_ProcessedCountsInsertCalls ==
    [][/\ (run.pc = "labels" /\ run'.pc = "messages") => run'.new_messages_found = 0
       /\ (run.pc = "fetched" /\ run'.pc = "messages") =>
                run'.new_messages_found = run.new_messages_found + 1
       /\ (run.pc = "messages" /\ run'.n = run.n) =>
                run'.new_messages_found = run.new_messages_found]_vars

-----------------------------------------------------------------------------
(* Further properties of the persistence layer *)

\* C26: when delete_email(m) has committed, no table holds a row of m, the
\* rows of every other message and the address rows are as they were; when m
\* was not stored, or the confirmation was declined, nothing has changed.
C26_DeleteRemovesOneMessage ==
    (call.pc = "done" /\ call.op = "delete_email") =>
        /\ call.outcome = "committed" =>
                /\ HasRow(call.pre, call.message_id)
                /\ RowsOf(db, call.message_id) = RowsOf(EmptyDb, call.message_id)
                /\ \A m \in MsgIds \ {call.message_id} : RowsOf(db, m) = RowsOf(call.pre, m)
                /\ db.email_address = call.pre.email_address
        /\ ~HasRow(call.pre, call.message_id) => (db = call.pre /\ call.outcome = "not_found")
        /\ call.outcome = "cancelled" => db = call.pre

\* a stored message with child rows was deleted after the confirmation
\* while another message with child rows is stored
C26_Witness ==
    /\ call.pc = "done" /\ call.op = "delete_email"
    /\ call.outcome = "committed" /\ call.confirm
    /\ \E t \in ChildTables : SelectRows(call.pre[t], call.message_id) # <<>>
    /\ \E m \in MsgIds \ {call.message_id} :
          HasRow(db, m) /\ \E t \in ChildTables : SelectRows(db[t], m) # <<>>

\* C27: in a run of main without --update, insert_message commits a message
\* only when the store holds no row of it and the run has not committed it
\* before, so each message id is committed at most once in the run.
C27_CommittedAtMostOnce ==
    [][(run.pc = "fetched" /\ ~run.update /\ run'.last_insert = "committed") =>
            /\ ~HasRow(db, run.message_id)
            /\ Event("inserted", run.message_id) \notin run.log
            /\ RowsOf(db', run.message_id) = RowsWritten(run.email_data[1])]_vars

\* without --update a message that this run has committed under one label is
\* fetched again under another, and insert_message leaves it alone
C27_Witness ==
    /\ ~run.update /\ run.pc = "messages"
    /\ run.message_id \notin run.existing_ids
    /\ Event("inserted", run.message_id) \in run.log
    /\ run.last_insert = "skipped"
    /\ db = run.pre

\* C28: the sender_email of every emails row is the key of an email_address
\* row, and an insert_message of a record whose sender address is empty, on a
\* store without an address row keyed by the empty string, stores nothing and
\* leaves every table as it was.
C28_SenderHasAddressRow ==
    /\ \A e \in db.emails : \E a \in db.email_address : a.email = e.sender_email
    /\ \A a \in db.email_address : a.email # ""
    /\ (call.pc = "done" /\ call.op = "insert_message" /\ call.rec[1].sender_email = "") =>
            /\ call.outcome # "committed"
            /\ db = call.pre

\* a record without sender address but with recipients was refused while the
\* store holds other messages
C28_Witness ==
    /\ call.pc = "done" /\ call.op = "insert_message"
    /\ call.rec[1].sender_email = "" /\ AddressPairs(call.rec[1]) # {}
    /\ call.outcome = "failed"
    /\ db.emails # {}

\* C29: a call of insert_message keeps every email_address row that existed
\* before it as it was; the rows it adds are keyed by addresses of the record's
\* sender, To, Cc and Bcc that had no row, one row for each such address.
C29_AddressRowsKept ==
    (call.pc = "done" /\ call.op = "insert_message") =>
        LET r == call.rec[1]
            old == {a.email : a \in call.pre.email_address}
            wanted == {p[2] : p \in AddressPairs(r)}
            added == db.email_address \ call.pre.email_address
        IN  /\ call.pre.email_address \subseteq db.email_address
            /\ \A a \in added :
                    /\ a.email \in wanted \ old
                    /\ <<a.display_name, a.email>> \in AddressPairs(r)
            /\ \A a, b \in db.email_address : a.email = b.email => a = b
            /\ call.outcome = "committed" => wanted \subseteq {a.email : a \in db.email_address}
            /\ call.outcome # "committed" => added = {}

\* a committed insert_message whose record names a stored address under
\* another display name and an address not yet stored
C29_Witness ==
    /\ call.pc = "done" /\ call.op = "insert_message" /\ call.outcome = "committed"
    /\ \E p \in AddressPairs(call.rec[1]) :
            \E a \in call.pre.email_address : a.email = p[2] /\ a.display_name # p[1]
    /\ db.email_address # call.pre.email_address

\* C30: when a run of main has ended by any path through its finally block,
\* close_db and disconnect have each been called once, the connection is
\* closed, the credentials are cleared and the token file is gone; neither is
\* called before the run is over, and after the end the run fetches and
\* writes nothing.
C30_CleanedUpOnEveryExit ==
    /\ [](/\ (run.pc = "ended" /\ ~run.killed) =>
                /\ run.closed = 1 /\ run.disconnected = 1
                /\ ~run.conn /\ ~run.creds /\ ~run.token_file
          /\ run.pc \in {"labels", "messages", "fetched", "closing"} =>
                (run.closed = 0 /\ run.disconnected = 0))
    /\ [][(run.pc = "ended" /\ run'.n = run.n) => (db' = db /\ run' = run)]_vars
    /\ [][run.pc = "closing" => (run'.pc = "ended" /\ db' = db /\ run'.log = run.log)]_vars

\* a run has ended through its finally block after an exception left main
\* with the connection open, credentials set and the token file present
C30_Witness ==
    /\ run.pc = "ended" /\ ~run.killed
    /\ Event("unexpected_error", None) \in run.log
    /\ run.listed # {}
    /\ run.closed = 1 /\ run.disconnected = 1

=============================================================================
